---- MODULE Spec2Model ----
(***************************************************************************)
(* A model of the scanning engine of secret-scanning-api                    *)
(* (src/scanner/scanner.go): the pattern registry behind its RWMutex, the   *)
(* chunk extractor scanChunk, the cached batch Scan with its direct path    *)
(* and its parallel path (chunk tasks, semaphore, closer goroutine,         *)
(* collection loop), and the context handed to each Scan.                   *)
(*                                                                         *)
(* Texts are sequences of one-character strings.  Positions are 0-based    *)
(* byte offsets as in Go; SubSeq is 1-based, hence the +1 in Slice.         *)
(***************************************************************************)
EXTENDS Integers, Sequences, FiniteSets, Bags, TLC

(***************************************************************************)
(* Bounds of the model.                                                    *)
(***************************************************************************)
\* Scan invocations made one after the other in one behaviour.
MaxCalls == 2
\* AddPattern invocations made in one behaviour.
MaxAdds == 2
\* Largest worker count WithWorkers is given.
MaxWorkers == 2
\* Options given to New.
MaxOptions == 2
\* Longest text, over a three-letter alphabet, a pure function is applied to.
MaxFnLen == 5
\* Largest chunk size, below the program's, the splitter is applied with.
MaxFnSize == 3

(***************************************************************************)
(* Program constants.  The chunk size and the small-text threshold are     *)
(* 10000 in the source; the model scales both by 1000 to 10 so that a      *)
(* text of two or three chunks is a sequence TLC can carry.  They stay     *)
(* larger than ShortSecretLen, so both confidence values occur in a chunk. *)
(***************************************************************************)
chunkSize == 10
smallTextThreshold == 10
\* calculateConfidence: matches shorter than this are halved.
shortSecretLen == 8
\* Confidence in tenths: 0.8 is 8, and 0.8 * 0.5 is 4.
baseConfidence == 8
\* New(): workers: 4.
defaultWorkers == 4
\* StreamScan: make(chan Result, 100), scaled by 50 to 2 so that a reader
\* of four lines fills it.
streamBuffer == 2

NL == "\n"
CR == "\r"

Rep(c, n) == [i \in 1..n |-> c]

\* Go's s[i:j] on a text, 0-based, half-open.
Slice(s, i, j) == SubSeq(s, i + 1, j)

Min(a, b) == IF a < b THEN a ELSE b

\* The orders in which a range over a Go map can visit the elements of S.
Orders(S) ==
    {o \in [1..Cardinality(S) -> S] :
        \A j, k \in DOMAIN o : j # k => o[j] # o[k]}

(***************************************************************************)
(* Regular expressions.  regexp.Compile and FindAllStringIndex belong to    *)
(* Go's library; the model carries three pattern sources that compile      *)
(* (a run of one or more "a", a run of zero or more "b", the literal "ab") *)
(* and one that does not.                                                  *)
(***************************************************************************)
NoMatcher == [kind |-> "none"]
CompileError == [kind |-> "error"]

Compile(source) ==
    CASE source = "a+" -> [kind |-> "plus", ch |-> "a"]
      [] source = "b*" -> [kind |-> "star", ch |-> "b"]
      [] source = "ab" -> [kind |-> "lit", lit |-> <<"a", "b">>]
      [] OTHER -> CompileError

\* Number of consecutive ch in s from 0-based position p on.
RunLen(s, p, ch) ==
    IF p >= Len(s) THEN 0
    ELSE LET run[q \in p..Len(s)] ==
                 IF q < Len(s) /\ s[q + 1] = ch THEN 1 + run[q + 1] ELSE 0
         IN  run[p]

\* Length of the (greedy) match of m that starts at position p, -1 if none.
MatchLen(m, s, p) ==
    CASE m.kind = "plus" ->
            IF RunLen(s, p, m.ch) > 0 THEN RunLen(s, p, m.ch) ELSE -1
      [] m.kind = "star" -> RunLen(s, p, m.ch)
      [] m.kind = "lit" ->
            IF p + Len(m.lit) <= Len(s) /\ Slice(s, p, p + Len(m.lit)) = m.lit
            THEN Len(m.lit) ELSE -1
      [] OTHER -> -1

\* Start of the leftmost match at or after pos, -1 if there is none.
Leftmost(m, s, pos) ==
    LET first[q \in pos..Len(s) + 1] ==
            IF q > Len(s) THEN -1
            ELSE IF MatchLen(m, s, q) >= 0 THEN q
            ELSE first[q + 1]
    IN  IF pos > Len(s) THEN -1 ELSE first[pos]

\* regexp.allMatches: successive non-overlapping matches from pos on; an
\* empty match that abuts the preceding match is skipped.  The loop is a
\* function of (pos, prevMatchEnd).
allMatches(m, s, pos, prevMatchEnd) ==
    LET from[at \in (0..Len(s) + 1) \X (-1..Len(s))] ==
            IF at[1] > Len(s) THEN <<>>
            ELSE LET found[q \in {Leftmost(m, s, at[1])}] ==
                         IF q < 0 THEN <<>>
                         ELSE LET e == q + MatchLen(m, s, q)
                                  accept == ~(e = at[1] /\ q = at[2])
                                  next == IF e = at[1] THEN at[1] + 1 ELSE e
                                  rest == from[<<next, e>>]
                              IN  IF accept THEN <<(<<q, e>>)>> \o rest
                                  ELSE rest
                 IN  found[Leftmost(m, s, at[1])]
    IN  from[<<pos, prevMatchEnd>>]

FindAllStringIndex(m, s) == allMatches(m, s, 0, -1)

(***************************************************************************)
(* scanChunk's per-match computation.                                      *)
(***************************************************************************)
\* strings.Count(s, "\n")
Count(s, ch) ==
    LET of[t \in {s}] ==
            LET upTo[n \in 0..Len(t)] ==
                    IF n = 0 THEN 0
                    ELSE upTo[n - 1] + (IF t[n] = ch THEN 1 ELSE 0)
            IN  upTo[Len(t)]
    IN  of[s]

\* calculateConfidence without the halving of short matches.
calculateConfidence_NeverHalved(secret) == baseConfidence

calculateConfidence(secret) ==
    IF Len(secret) < shortSecretLen
    THEN (baseConfidence * 5) \div 10
    ELSE baseConfidence

getDescription(patternType) ==
    CASE patternType = "aws_access_key" -> "Possible AWS access key detected"
      [] patternType = "github_token" -> "Possible GitHub token detected"
      [] OTHER -> "Unknown secret type detected"

\* MakeResult with the chunk offset left off EndIndex.
MakeResult_EndNotShifted(patternName, chunk, offset, match) ==
    [Type |-> patternName,
     Value |-> Slice(chunk, match[1], match[2]),
     StartIndex |-> offset + match[1],
     EndIndex |-> match[2],
     LineNumber |-> Count(Slice(chunk, 0, match[1]), NL) + 1,
     Confidence |-> calculateConfidence(Slice(chunk, match[1], match[2])),
     Description |-> getDescription(patternName)]

\* MakeResult with the Value running to the end of the chunk.
MakeResult_ValueToChunkEnd(patternName, chunk, offset, match) ==
    [Type |-> patternName,
     Value |-> Slice(chunk, match[1], Len(chunk)),
     StartIndex |-> offset + match[1],
     EndIndex |-> offset + match[2],
     LineNumber |-> Count(Slice(chunk, 0, match[1]), NL) + 1,
     Confidence |-> calculateConfidence(Slice(chunk, match[1], match[2])),
     Description |-> getDescription(patternName)]

\* MakeResult counting lines from 0.
MakeResult_LineFromZero(patternName, chunk, offset, match) ==
    [Type |-> patternName,
     Value |-> Slice(chunk, match[1], match[2]),
     StartIndex |-> offset + match[1],
     EndIndex |-> offset + match[2],
     LineNumber |-> Count(Slice(chunk, 0, match[1]), NL),
     Confidence |-> calculateConfidence(Slice(chunk, match[1], match[2])),
     Description |-> getDescription(patternName)]

\* The Result built for one match of pattern patternName in chunk.
MakeResult(patternName, chunk, offset, match) ==
    [Type |-> patternName,
     Value |-> Slice(chunk, match[1], match[2]),
     StartIndex |-> offset + match[1],
     EndIndex |-> offset + match[2],
     LineNumber |-> Count(Slice(chunk, 0, match[1]), NL) + 1,
     Confidence |-> calculateConfidence(Slice(chunk, match[1], match[2])),
     Description |-> getDescription(patternName)]

\* One pattern pass: the results appended for pattern patternName.
PassResults(patternName, pattern, chunk, offset) ==
    LET forMatches[matches \in {FindAllStringIndex(pattern, chunk)}] ==
            [k \in 1..Len(matches) |->
                MakeResult(patternName, chunk, offset, matches[k])]
    IN  forMatches[FindAllStringIndex(pattern, chunk)]

\* Replaces without the confidence comparison: the last match wins.
Replaces_LastWins(lineResults, result) == TRUE

\* Whether result replaces what lineResults holds for its line.
Replaces(lineResults, result) ==
    \/ result.LineNumber \notin DOMAIN lineResults
    \/ result.Confidence > lineResults[result.LineNumber].Confidence

RECURSIVE GroupByLine(_, _, _)
\* The grouping loop over results[k..], starting from lineResults.
GroupByLine(results, k, lineResults) ==
    LET from[existing \in {lineResults}] ==
            IF k > Len(results) THEN existing
            ELSE LET result == results[k]
                 IN  IF Replaces(existing, result)
                     THEN GroupByLine(results, k + 1,
                             [l \in DOMAIN existing \cup {result.LineNumber} |->
                                 IF l = result.LineNumber THEN result
                                 ELSE existing[l]])
                     ELSE GroupByLine(results, k + 1, existing)
    IN  from[lineResults]

\* A scanChunk that returns every result, without the grouping by line.
Dedup_KeepAll(results) == SetToBag({results[k] : k \in DOMAIN results})

\* finalResults: the values of the lineResults map, in no order.
Dedup(results) ==
    LET finalResults[all \in {results}] ==
            LET lineResults == GroupByLine(all, 1, <<>>)
            IN  SetToBag({lineResults[l] : l \in DOMAIN lineResults})
    IN  finalResults[results]

(***************************************************************************)
(* splitIntoChunks                                                         *)
(***************************************************************************)
RECURSIVE chunksFrom_OffsetIsIndex(_, _, _)
\* The loop with the chunk's number as its offset.
chunksFrom_OffsetIsIndex(text, size, i) ==
    IF i >= Len(text) THEN <<>>
    ELSE LET end == Min(i + size, Len(text))
         IN  <<[text |-> Slice(text, i, end), offset |-> i \div size]>>
                 \o chunksFrom_OffsetIsIndex(text, size, i + size)

RECURSIVE chunksFrom_DropsShortTail(_, _, _)
\* The loop stopping before a last chunk shorter than size.
chunksFrom_DropsShortTail(text, size, i) ==
    IF i + size > Len(text) THEN <<>>
    ELSE <<[text |-> Slice(text, i, i + size), offset |-> i]>>
             \o chunksFrom_DropsShortTail(text, size, i + size)

RECURSIVE chunksFrom(_, _, _)
\* Lines 253-262 from position i on, for a chunk size of size.
chunksFrom(text, size, i) ==
    IF i >= Len(text) THEN <<>>
    ELSE LET end == Min(i + size, Len(text))
         IN  <<[text |-> Slice(text, i, end), offset |-> i]>>
                 \o chunksFrom(text, size, i + size)

splitIntoChunks(text) == chunksFrom(text, chunkSize, 0)

(***************************************************************************)
(* maskSecret (src/main.go)                                                *)
(***************************************************************************)
\* maskSecret giving a short secret back as it is.
maskSecret_ShortUnmasked(secret) ==
    IF Len(secret) <= 4 THEN secret
    ELSE Slice(secret, 0, 2) \o Rep("*", Len(secret) - 4)
             \o Slice(secret, Len(secret) - 2, Len(secret))

maskSecret(secret) ==
    IF Len(secret) <= 4 THEN Rep("*", Len(secret))
    ELSE Slice(secret, 0, 2) \o Rep("*", Len(secret) - 4)
             \o Slice(secret, Len(secret) - 2, Len(secret))

(***************************************************************************)
(* Inputs the behaviours draw from.                                        *)
(***************************************************************************)
PatternNames == {"aws_access_key", "custom"}
PatternSources == {"a+", "b*", "("}

\* 9 bytes: below the threshold, one long and one short match on a line.
TextDirect == Rep("a", 8) \o <<"b">>
\* 12 bytes: chunks "aaaaaaaab\n" and "ab".
TextTwoChunks == Rep("a", 8) \o <<"b", NL, "a", "b">>
\* 21 bytes: chunks "ab\nbaaaaaa", "aaaaaaaaab" and "b".
TextThreeChunks == <<"a", "b", NL, "b">> \o Rep("a", 15) \o <<"b", "b">>
Texts == {TextDirect, TextTwoChunks, TextThreeChunks}

\* Readers: five lines, one of them empty, the last one unterminated.
LinesLF == <<"a", NL, "a", NL, NL, "a", "b", NL, "a", "a">>
\* Two lines ended by "\r\n" and a third ended by "\n".
LinesCRLF == <<"a", "b", CR, NL, "a", CR, NL, "b", "a", NL>>
StreamTexts == {LinesLF, LinesCRLF}

Calls == 1..MaxCalls
Adders == 1..MaxAdds
\* Task 0 of a call is the caller's own extraction on the direct path;
\* tasks 1..n are the goroutines of the parallel path, one per chunk.
MaxChunks ==
    CHOOSE n \in 0..30 :
        /\ \A t \in Texts : Len(splitIntoChunks(t)) <= n
        /\ \E t \in Texts : Len(splitIntoChunks(t)) = n
TaskIds == 0..MaxChunks

ErrCancelled == "context canceled"
ErrInvalidPattern == "error parsing regexp"
NoErr == "nil"

(***************************************************************************)
(* What the scanner's user does in one behaviour.  With setup the user     *)
(* registers patterns first and scans afterwards, as main does; without    *)
(* it AddPattern and Scan are called at any time, also concurrently.       *)
(* calls: the Scan invocations, made one after the other unless the plan   *)
(* is concurrent; streams: the invocations that are StreamScan calls, and   *)
(* lines: the inputs their readers hold;                                   *)
(* options: the option lists New may be given; pure: whether arguments of  *)
(* the pure functions are drawn.                                           *)
(***************************************************************************)
\* A pure function's arguments (a text, a chunk size, a registry) and the
\* results of applying the splitter, the two scan paths and the masking.
NoFn ==
    [op |-> "none", text |-> <<>>, size |-> 0, pats |-> <<>>, chunks |-> <<>>,
     direct |-> {}, forced |-> {}, masked |-> <<>>]

FnAlphabet == {"a", "b", NL}
FnTexts == UNION {[1..n -> FnAlphabet] : n \in 0..MaxFnLen} \cup Texts
FnSizes == 1..MaxFnSize \cup {chunkSize}
FnMatchers == {NoMatcher} \cup {Compile(source) : source \in {"a+", "b*", "ab"}}
FnInputs ==
    {[NoFn EXCEPT !.text = t, !.size = n, !.pats = r] :
        t \in FnTexts, n \in FnSizes, r \in [PatternNames -> FnMatchers]}

\* New(WithWorkers(n)) for the worker counts the model carries.
GivenWorkers == {<<n>> : n \in 1..MaxWorkers}

SetupPlan ==
    [calls |-> MaxCalls, adds |-> MaxAdds - 1, setup |-> TRUE,
     texts |-> {TextDirect, TextTwoChunks}, options |-> GivenWorkers,
     concurrent |-> FALSE, streams |-> {}, lines |-> {}, pure |-> FALSE]
RacePlan ==
    [calls |-> MaxCalls - 1, adds |-> MaxAdds, setup |-> FALSE,
     texts |-> {TextDirect, TextTwoChunks}, options |-> GivenWorkers,
     concurrent |-> FALSE, streams |-> {}, lines |-> {}, pure |-> FALSE]
PoolPlan ==
    [calls |-> MaxCalls - 1, adds |-> MaxAdds - 1, setup |-> TRUE,
     texts |-> {TextDirect, TextThreeChunks}, options |-> GivenWorkers,
     concurrent |-> FALSE, streams |-> {}, lines |-> {}, pure |-> FALSE]

VARIABLES
    plan,           \* the user's plan, fixed for the behaviour
    workers,        \* Scanner.workers
    patterns,       \* Scanner.patterns: name -> matcher (NoMatcher: absent)
    patternMutex,   \* Scanner.patternMutex: readers inside, writer state
    cache,          \* Scanner.cache: text -> stored results
    addPc,          \* each AddPattern invocation's position
    addArgs,        \* its (name, pattern) arguments
    addErr,         \* its return value
    callPc,         \* each Scan invocation's position
    callText,       \* its text argument
    ctxDone,        \* whether its context is cancelled
    ctxDoneAtCall,  \* whether the context was cancelled when Scan was called
    task,           \* its extractions: position, chunk, locals of scanChunk
    resultsChan,    \* its result channel: buffer and closed flag
    errChan,        \* its error channel: buffer and closed flag
    sem,            \* its semaphore: slots taken
    wg,             \* its WaitGroup counter
    closerPc,       \* its closer goroutine's position
    allResults,     \* the collection loop's accumulator
    collected,      \* the tasks whose results the call has taken so far
    ret,            \* what Scan returned: results and error
    options,        \* the option list New was given
    stream,         \* each StreamScan producer: position, reader, offset
    streamChan,     \* its output channel: buffer, closed flag, closes
    received,       \* what its consumer has received so far
    fn              \* a pure function's arguments and result

vars == <<plan, workers, patterns, patternMutex, cache, addPc, addArgs,
          addErr, callPc, callText, ctxDone, ctxDoneAtCall, task, resultsChan,
          errChan, sem, wg, closerPc, allResults, collected, ret, options,
          stream, streamChan, received, fn>>

registryVars == <<patterns, patternMutex, addPc, addArgs, addErr>>
cacheVars == <<cache>>
callVars == <<callPc, callText, ctxDoneAtCall, allResults, collected, ret>>
chanVars == <<resultsChan, errChan, sem, wg, closerPc>>
streamVars == <<stream, streamChan, received>>

IdleTask ==
    [pc |-> "none", text |-> <<>>, offset |-> 0, rem |-> {},
     results |-> <<>>, final |-> EmptyBag, err |-> NoErr]

\* A task that has returned: its locals are gone.
ExitedTask == [IdleTask EXCEPT !.pc = "done"]

OpenChan == [buf |-> <<>>, closed |-> FALSE]

NoArgs == [name |-> "", pattern |-> ""]

NoReturn == [results |-> EmptyBag, err |-> "none"]

\* WithWorkers(n), applied to a scanner whose worker count is w.
\* WithWorkers without its n > 0 test.
WithWorkers_Unchecked(n, w) == n

WithWorkers(n, w) == IF n > 0 THEN n ELSE w

RECURSIVE ApplyOptions(_, _)
\* Lines 57-59: the options are applied in the order given.
ApplyOptions(opts, w) ==
    IF opts = <<>> THEN w
    ELSE ApplyOptions(Tail(opts), WithWorkers(Head(opts), w))

\* New(opts...): the worker count of the scanner it returns.
New(opts) == ApplyOptions(opts, defaultWorkers)

\* A StreamScan that was not called.  pos is the reader's position and
\* offset the producer's local; lineLen is len(line); lineStart (where the
\* current line starts in the input), lineNo (its number) and extracted (the
\* findings of the lines so far) are kept for the properties.
NoStream ==
    [pc |-> "none", pos |-> 0, lineStart |-> 0, lineNo |-> 0, lineLen |-> 0,
     offset |-> 0, pending |-> <<>>, extracted |-> <<>>]

OpenStreamChan == [buf |-> <<>>, closed |-> FALSE, closes |-> 0]

\* New and the user's plan; the arguments of the pure functions are drawn
\* apart.
InitScanner(p) ==
    /\ plan = p
    /\ options \in p.options
    /\ workers = New(options)
    /\ stream = [c \in Calls |-> NoStream]
    /\ streamChan = [c \in Calls |-> OpenStreamChan]
    /\ received = [c \in Calls |-> <<>>]
    /\ patterns = [name \in PatternNames |-> NoMatcher]
    /\ patternMutex = [readers |-> 0, writer |-> "free"]
    /\ cache = <<>>
    /\ addPc = [a \in Adders |-> "idle"]
    /\ addArgs = [a \in Adders |-> NoArgs]
    /\ addErr = [a \in Adders |-> "none"]
    /\ callPc = [c \in Calls |-> "idle"]
    /\ callText = [c \in Calls |-> <<>>]
    /\ ctxDone = [c \in Calls |-> FALSE]
    /\ ctxDoneAtCall = [c \in Calls |-> FALSE]
    /\ task = [c \in Calls |-> [i \in TaskIds |-> IdleTask]]
    /\ resultsChan = [c \in Calls |-> OpenChan]
    /\ errChan = [c \in Calls |-> OpenChan]
    /\ sem = [c \in Calls |-> 0]
    /\ wg = [c \in Calls |-> 0]
    /\ closerPc = [c \in Calls |-> "none"]
    /\ allResults = [c \in Calls |-> EmptyBag]
    /\ collected = [c \in Calls |-> {}]
    /\ ret = [c \in Calls |-> NoReturn]

InitWith(p) ==
    /\ InitScanner(p)
    /\ fn \in (IF p.pure THEN FnInputs ELSE {NoFn})

(***************************************************************************)
(* AddPattern                                                              *)
(***************************************************************************)
\* Lines 64-67: compile; a source that does not compile returns the error.
AddPatternCall(a, name, pattern) ==
    /\ addPc[a] = "idle"
    /\ a <= plan.adds
    /\ \A b \in Adders : b < a => addPc[b] # "idle"
    /\ plan.setup => \A c \in Calls : callPc[c] = "idle"
    /\ addArgs' = [addArgs EXCEPT ![a] = [name |-> name, pattern |-> pattern]]
    /\ IF Compile(pattern) = CompileError
       THEN /\ addPc' = [addPc EXCEPT ![a] = "done"]
            /\ addErr' = [addErr EXCEPT ![a] = ErrInvalidPattern]
       ELSE /\ addPc' = [addPc EXCEPT ![a] = "lock"]
            /\ addErr' = addErr
    /\ UNCHANGED <<plan, workers, options, fn, streamVars, patterns, patternMutex, cacheVars, callVars,
                   ctxDone, task, chanVars>>

\* Line 69, first half of RWMutex.Lock: take the writer slot and announce
\* the writer, which keeps new readers out.
WriterSlotFree(mutex) == mutex.writer = "free"

AddPatternLock(a) ==
    /\ addPc[a] = "lock"
    /\ WriterSlotFree(patternMutex)
    /\ patternMutex' = [patternMutex EXCEPT !.writer = "pending"]
    /\ addPc' = [addPc EXCEPT ![a] = "wait"]
    /\ UNCHANGED <<plan, workers, options, fn, streamVars, patterns, cacheVars, addArgs, addErr, callVars,
                   ctxDone, task, chanVars>>

\* A Lock that does not wait for the readers.
ReadersGone_NoWait(mutex) == TRUE

\* Line 69, second half of RWMutex.Lock: wait until the readers have left.
ReadersGone(mutex) == mutex.readers = 0

AddPatternAcquire(a) ==
    /\ addPc[a] = "wait"
    /\ ReadersGone(patternMutex)
    /\ patternMutex' = [patternMutex EXCEPT !.writer = "held"]
    /\ addPc' = [addPc EXCEPT ![a] = "write"]
    /\ UNCHANGED <<plan, workers, options, fn, streamVars, patterns, cacheVars, addArgs, addErr, callVars,
                   ctxDone, task, chanVars>>

\* Install into a fresh map, losing the other names.
Install_FreshMap(pats, name, pattern) ==
    [n \in DOMAIN pats |-> IF n = name THEN Compile(pattern) ELSE NoMatcher]

\* Line 71: s.patterns[name] = compiled
Install(pats, name, pattern) == [pats EXCEPT ![name] = Compile(pattern)]

\* An AddPattern that empties the cache.
CacheAfterAdd_Invalidated(m) == <<>>

\* Lines 63-73: AddPattern does not touch s.cache; the entries stay.
CacheAfterAdd(m) == m

\* Lines 70-72: the store, the deferred Unlock, return nil.
AddPatternWrite(a) ==
    /\ addPc[a] = "write"
    /\ patterns' = Install(patterns, addArgs[a].name, addArgs[a].pattern)
    /\ patternMutex' = [patternMutex EXCEPT !.writer = "free"]
    /\ addPc' = [addPc EXCEPT ![a] = "done"]
    /\ addErr' = [addErr EXCEPT ![a] = NoErr]
    /\ addArgs' = [addArgs EXCEPT ![a] = NoArgs]
    /\ cache' = CacheAfterAdd(cache)
    /\ UNCHANGED <<plan, workers, options, fn, streamVars, callVars, ctxDone, task, chanVars>>

(***************************************************************************)
(* scanChunk, run by task i of call c (the caller itself when i = 0).      *)
(***************************************************************************)
Registered(pats) == {name \in PatternNames : pats[name] # NoMatcher}

\* A scanChunk that ranges over the registry without taking the read lock.
ReaderAdmitted_NoLock(mutex) == TRUE

\* RWMutex.RLock admits a reader unless a writer holds or awaits the lock.
ReaderAdmitted(mutex) == mutex.writer = "free"

\* Lines 77-81: RLock, then range over the registered patterns.
ScanChunkRLock(c, i) ==
    /\ task[c][i].pc = "rlock"
    /\ ReaderAdmitted(patternMutex)
    /\ patternMutex' = [patternMutex EXCEPT !.readers = @ + 1]
    /\ task' = [task EXCEPT ![c][i].pc = "pass",
                            ![c][i].rem = Registered(patterns),
                            ![c][i].results = <<>>]
    /\ UNCHANGED <<plan, workers, options, fn, streamVars, patterns, cacheVars, addPc, addArgs, addErr,
                   callVars, ctxDone, chanVars>>

\* A return on a done context that hands back the findings so far.
Failed_PartialKept(t) ==
    [t EXCEPT !.pc = "scanned", !.rem = {}, !.final = Dedup(t.results),
              !.err = ErrCancelled]

\* scanChunk's return (nil, ctx.Err()) on a done context.
Failed(t) ==
    [t EXCEPT !.pc = "scanned", !.rem = {}, !.results = <<>>,
              !.final = EmptyBag, !.err = ErrCancelled]

\* Lines 104-118: grouping by line, the slice of survivors,
\* return (finalResults, nil).
Finished(t) ==
    [t EXCEPT !.pc = "scanned", !.final = Dedup(t.results), !.err = NoErr]

\* Lines 81-102, one iteration for pattern patternName (the map's iteration
\* order is not fixed): the context check, then the match pass.  A done
\* context returns at once; after the last pattern, lines 104-118 follow.
\* Either return runs the deferred RUnlock.
Appended(t, patternName, pattern) ==
    [t EXCEPT !.rem = @ \ {patternName},
              !.results = @ \o PassResults(patternName, pattern,
                                           t.text, t.offset)]

ScanChunkPass(c, i, patternName) ==
    /\ task[c][i].pc = "pass"
    /\ patternName \in task[c][i].rem
    /\ IF ctxDone[c]
       THEN /\ task' = [task EXCEPT ![c][i] = Failed(@)]
            /\ patternMutex' = [patternMutex EXCEPT !.readers = @ - 1]
       ELSE IF task[c][i].rem = {patternName}
       THEN /\ task' = [task EXCEPT ![c][i] =
                           Finished(Appended(@, patternName,
                                             patterns[patternName]))]
            /\ patternMutex' = [patternMutex EXCEPT !.readers = @ - 1]
       ELSE /\ task' = [task EXCEPT ![c][i] =
                           Appended(@, patternName, patterns[patternName])]
            /\ patternMutex' = patternMutex
    /\ UNCHANGED <<plan, workers, options, fn, streamVars, patterns, cacheVars, addPc, addArgs, addErr,
                   callVars, ctxDone, chanVars>>

\* Lines 81 and 104-118 with no pattern registered: the loop body never
\* runs, so the context is not looked at.
ScanChunkEmpty(c, i) ==
    /\ task[c][i].pc = "pass"
    /\ task[c][i].rem = {}
    /\ task' = [task EXCEPT ![c][i] = Finished(@)]
    /\ patternMutex' = [patternMutex EXCEPT !.readers = @ - 1]
    /\ UNCHANGED <<plan, workers, options, fn, streamVars, patterns, cacheVars, addPc, addArgs, addErr,
                   callVars, ctxDone, chanVars>>

(***************************************************************************)
(* The context of a call: cancel() may come at any time, also before Scan. *)
(***************************************************************************)
Cancel(c) ==
    /\ ~ctxDone[c]
    /\ c <= plan.calls \/ c \in plan.streams
    /\ callPc[c] # "returned"
    /\ \/ plan.concurrent
       \/ c \in plan.streams
       \/ \A d \in Calls : d < c => callPc[d] = "returned"
    /\ ctxDone' = [ctxDone EXCEPT ![c] = TRUE]
    /\ UNCHANGED <<plan, workers, options, fn, streamVars, registryVars, cacheVars, callVars, task, chanVars>>

(***************************************************************************)
(* Scan                                                                    *)
(***************************************************************************)
\* A cache lookup that never hits.
CacheHas_Never(text) == FALSE

\* sync.Map.Load / Store on the cache.
CacheHas(text) == text \in DOMAIN cache

CacheStore(m, text, value) ==
    [t \in DOMAIN m \cup {text} |-> IF t = text THEN value ELSE m[t]]

Returned(results, err) == [results |-> results, err |-> err]

\* The entry of Scan with the cache looked up before the context.
ScanEntry_CacheFirst(c, text) ==
    CASE text \in DOMAIN cache -> "hit"
      [] ctxDone[c] -> "cancelled"
      [] Len(text) < smallTextThreshold -> "direct"
      [] OTHER -> "parallel"

\* Which of the four outcomes of lines 123-145 the entry of Scan takes.
ScanEntry(c, text) ==
    CASE ctxDone[c] -> "cancelled"
      [] CacheHas(text) -> "hit"
      [] Len(text) < smallTextThreshold -> "direct"
      [] OTHER -> "parallel"

\* Lines 145-184: the chunk tasks, parked before the semaphore.
\* Every task given offset 0.
StartedTasks_NoOffset(text) ==
    LET chunks == splitIntoChunks(text)
    IN  [i \in TaskIds |->
            IF i \in 1..Len(chunks)
            THEN [IdleTask EXCEPT !.pc = "acquire", !.text = chunks[i].text]
            ELSE IdleTask]

\* Lines 145-176: one task per chunk, with the chunk's text and offset.
StartedTasks(text) ==
    LET chunks == splitIntoChunks(text)
    IN  [i \in TaskIds |->
            IF i \in 1..Len(chunks)
            THEN [IdleTask EXCEPT !.pc = "acquire",
                                  !.text = chunks[i].text,
                                  !.offset = chunks[i].offset]
            ELSE IdleTask]

\* Lines 122-184: the context check, the cache lookup, and then either the
\* direct call of scanChunk or the start of the chunk tasks and the closer.
ScanCall(c, text) ==
    /\ callPc[c] = "idle"
    /\ c <= plan.calls
    /\ text \in plan.texts
    /\ \A d \in Calls : d < c =>
           IF plan.concurrent THEN callPc[d] # "idle"
           ELSE callPc[d] = "returned"
    /\ plan.setup => \A a \in Adders : addPc[a] \in {"idle", "done"}
    /\ callText' = [callText EXCEPT ![c] = text]
    /\ ctxDoneAtCall' = [ctxDoneAtCall EXCEPT ![c] = ctxDone[c]]
    /\ CASE ScanEntry(c, text) = "cancelled" ->
                /\ callPc' = [callPc EXCEPT ![c] = "returned"]
                /\ ret' = [ret EXCEPT ![c] = Returned(EmptyBag, ErrCancelled)]
                /\ UNCHANGED <<task, wg, closerPc>>
         [] ScanEntry(c, text) = "hit" ->
                /\ callPc' = [callPc EXCEPT ![c] = "returned"]
                /\ ret' = [ret EXCEPT ![c] = Returned(cache[text], NoErr)]
                /\ UNCHANGED <<task, wg, closerPc>>
         [] ScanEntry(c, text) = "direct" ->
                /\ callPc' = [callPc EXCEPT ![c] = "direct"]
                /\ task' = [task EXCEPT ![c][0] =
                               [IdleTask EXCEPT !.pc = "rlock",
                                                !.text = text]]
                /\ UNCHANGED <<ret, wg, closerPc>>
         [] OTHER ->
                /\ callPc' = [callPc EXCEPT ![c] = "collect"]
                /\ task' = [task EXCEPT ![c] = StartedTasks(text)]
                /\ wg' = [wg EXCEPT ![c] = Len(splitIntoChunks(text))]
                /\ closerPc' = [closerPc EXCEPT ![c] = "wait"]
                /\ UNCHANGED ret
    /\ UNCHANGED <<plan, workers, options, fn, streamVars, registryVars, cacheVars, ctxDone, allResults,
                   collected, resultsChan, errChan, sem>>

\* Lines 136-141: scanChunk has returned on the direct path.
ScanDirectReturn(c) ==
    /\ callPc[c] = "direct"
    /\ task[c][0].pc = "scanned"
    /\ callPc' = [callPc EXCEPT ![c] = "returned"]
    /\ task' = [task EXCEPT ![c][0] = ExitedTask]
    /\ IF task[c][0].err # NoErr
       THEN /\ ret' = [ret EXCEPT ![c] = Returned(EmptyBag, task[c][0].err)]
            /\ UNCHANGED cacheVars
       ELSE /\ ret' = [ret EXCEPT ![c] = Returned(task[c][0].final, NoErr)]
            /\ cache' = CacheStore(cache, callText[c], task[c][0].final)
    /\ collected' = [collected EXCEPT ![c] = {0}]
    /\ UNCHANGED <<plan, workers, options, fn, streamVars, registryVars, callText, ctxDone, ctxDoneAtCall,
                   allResults, chanVars>>

(***************************************************************************)
(* A chunk task of the parallel path (lines 154-176).                      *)
(***************************************************************************)
\* A semaphore with one slot too many.
SemHasRoom_OneMore(taken) == taken <= workers

\* A send on the semaphore channel blocks while all its slots are taken.
SemHasRoom(taken) == taken < workers

\* Line 156: sem <- struct{}{}
TaskAcquire(c, i) ==
    /\ i # 0
    /\ task[c][i].pc = "acquire"
    /\ SemHasRoom(sem[c])
    /\ sem' = [sem EXCEPT ![c] = @ + 1]
    /\ task' = [task EXCEPT ![c][i].pc = "rlock"]
    /\ UNCHANGED <<plan, workers, options, fn, streamVars, registryVars, cacheVars, callVars, ctxDone,
                   resultsChan, errChan, wg, closerPc>>

\* select { case errChan <- err: default: } on a channel of capacity 1.
TrySend(ch, err) == IF Len(ch.buf) < 1 THEN [ch EXCEPT !.buf = <<err>>] ELSE ch

\* Lines 160-166: scanChunk failed; the error is offered to errChan.
TaskSendErr(c, i) ==
    /\ i # 0
    /\ task[c][i].pc = "scanned"
    /\ task[c][i].err # NoErr
    /\ errChan' = [errChan EXCEPT ![c] = TrySend(@, task[c][i].err)]
    /\ task' = [task EXCEPT ![c][i] = [ExitedTask EXCEPT !.pc = "exit"]]
    /\ UNCHANGED <<plan, workers, options, fn, streamVars, registryVars, cacheVars, callVars, ctxDone,
                   resultsChan, sem, wg, closerPc>>

\* A result channel with a single slot.
resultsCap_OneSlot(text) == 1

\* Line 146: make(chan []Result, len(chunks)).
resultsCap(text) == Len(splitIntoChunks(text))

\* Lines 168-169: the results go to resultsChan, which has a slot per chunk.
TaskSendResults(c, i) ==
    /\ i # 0
    /\ task[c][i].pc = "scanned"
    /\ task[c][i].err = NoErr
    /\ Len(resultsChan[c].buf) < resultsCap(callText[c])
    /\ resultsChan' = [resultsChan EXCEPT ![c].buf =
                          Append(@, [chunk |-> i, results |-> task[c][i].final])]
    /\ task' = [task EXCEPT ![c][i] = [ExitedTask EXCEPT !.pc = "exit"]]
    /\ UNCHANGED <<plan, workers, options, fn, streamVars, registryVars, cacheVars, callVars, ctxDone,
                   errChan, sem, wg, closerPc>>

\* Lines 170-174: the select takes the ctx.Done() case instead; the results
\* are dropped and ctx.Err() is offered to errChan.
TaskDropResults(c, i) ==
    /\ i # 0
    /\ task[c][i].pc = "scanned"
    /\ task[c][i].err = NoErr
    /\ ctxDone[c]
    /\ errChan' = [errChan EXCEPT ![c] = TrySend(@, ErrCancelled)]
    /\ task' = [task EXCEPT ![c][i] = [ExitedTask EXCEPT !.pc = "exit"]]
    /\ UNCHANGED <<plan, workers, options, fn, streamVars, registryVars, cacheVars, callVars, ctxDone,
                   resultsChan, sem, wg, closerPc>>

\* A task that keeps its slot when it ends.
Released_Never(taken) == taken

\* Line 157, deferred: <-sem gives the slot back.
Released(taken) == taken - 1

\* Lines 155-157, the deferred calls: <-sem, then wg.Done().
TaskExit(c, i) ==
    /\ i # 0
    /\ task[c][i].pc = "exit"
    /\ sem' = [sem EXCEPT ![c] = Released(@)]
    /\ wg' = [wg EXCEPT ![c] = @ - 1]
    /\ task' = [task EXCEPT ![c][i] = ExitedTask]
    /\ UNCHANGED <<plan, workers, options, fn, streamVars, registryVars, cacheVars, callVars, ctxDone,
                   resultsChan, errChan, closerPc>>

(***************************************************************************)
(* The closer goroutine (lines 180-184).                                   *)
(***************************************************************************)
\* A closer that does not wait for the chunk goroutines.
WaitOver_AtOnce(counter) == TRUE

\* Line 181: wg.Wait() returns once the counter is zero.
WaitOver(counter) == counter = 0

\* Lines 181-182: wg.Wait(), close(resultsChan).
CloserCloseResults(c) ==
    /\ closerPc[c] = "wait"
    /\ WaitOver(wg[c])
    /\ resultsChan' = [resultsChan EXCEPT ![c].closed = TRUE]
    /\ closerPc' = [closerPc EXCEPT ![c] = "closeErr"]
    /\ UNCHANGED <<plan, workers, options, fn, streamVars, registryVars, cacheVars, callVars, ctxDone, task,
                   errChan, sem, wg>>

\* Line 183: close(errChan).
CloserCloseErr(c) ==
    /\ closerPc[c] = "closeErr"
    /\ errChan' = [errChan EXCEPT ![c].closed = TRUE]
    /\ closerPc' = [closerPc EXCEPT ![c] = "done"]
    /\ UNCHANGED <<plan, workers, options, fn, streamVars, registryVars, cacheVars, callVars, ctxDone, task,
                   resultsChan, sem, wg>>

(***************************************************************************)
(* The collection loop (lines 187-204).  A select with several ready cases *)
(* takes any one of them.                                                  *)
(***************************************************************************)
\* Lines 190-191.
CollectCtxDone(c) ==
    /\ callPc[c] = "collect"
    /\ ctxDone[c]
    /\ callPc' = [callPc EXCEPT ![c] = "returned"]
    /\ ret' = [ret EXCEPT ![c] = Returned(EmptyBag, ErrCancelled)]
    /\ allResults' = [allResults EXCEPT ![c] = EmptyBag]
    /\ UNCHANGED <<plan, workers, options, fn, streamVars, registryVars, cacheVars, callText, ctxDone,
                   ctxDoneAtCall, collected, task, chanVars>>

\* Lines 192-195, an error is buffered.
CollectErr(c) ==
    /\ callPc[c] = "collect"
    /\ errChan[c].buf # <<>>
    /\ errChan' = [errChan EXCEPT ![c].buf = Tail(@)]
    /\ callPc' = [callPc EXCEPT ![c] = "returned"]
    /\ ret' = [ret EXCEPT ![c] = Returned(EmptyBag, Head(errChan[c].buf))]
    /\ allResults' = [allResults EXCEPT ![c] = EmptyBag]
    /\ UNCHANGED <<plan, workers, options, fn, streamVars, registryVars, cacheVars, callText, ctxDone,
                   ctxDoneAtCall, collected, task, resultsChan, sem, wg,
                   closerPc>>

\* Lines 192-195, errChan is closed and empty: the receive yields nil and
\* the loop goes round again.
CollectErrClosed(c) ==
    /\ callPc[c] = "collect"
    /\ errChan[c].buf = <<>>
    /\ errChan[c].closed
    /\ UNCHANGED vars

\* Lines 196 and 202: one task's results are appended.
CollectResults(c) ==
    /\ callPc[c] = "collect"
    /\ resultsChan[c].buf # <<>>
    /\ resultsChan' = [resultsChan EXCEPT ![c].buf = Tail(@)]
    /\ allResults' = [allResults EXCEPT
                         ![c] = @ (+) Head(resultsChan[c].buf).results]
    /\ collected' = [collected EXCEPT
                        ![c] = @ \cup {Head(resultsChan[c].buf).chunk}]
    /\ UNCHANGED <<plan, workers, options, fn, streamVars, registryVars, cacheVars, callPc, callText, ctxDone,
                   ctxDoneAtCall, ret, task, errChan, sem, wg, closerPc>>

\* Lines 196-201: resultsChan is closed and drained.
CollectClosed(c) ==
    /\ callPc[c] = "collect"
    /\ resultsChan[c].buf = <<>>
    /\ resultsChan[c].closed
    /\ cache' = CacheStore(cache, callText[c], allResults[c])
    /\ callPc' = [callPc EXCEPT ![c] = "returned"]
    /\ ret' = [ret EXCEPT ![c] = Returned(allResults[c], NoErr)]
    /\ allResults' = [allResults EXCEPT ![c] = EmptyBag]
    /\ UNCHANGED <<plan, workers, options, fn, streamVars, registryVars, callText, ctxDone, ctxDoneAtCall,
                   collected, task, chanVars>>

Next ==
    \/ \E a \in Adders, name \in PatternNames, pattern \in PatternSources :
          AddPatternCall(a, name, pattern)
    \/ \E a \in Adders : AddPatternLock(a)
    \/ \E a \in Adders : AddPatternAcquire(a)
    \/ \E a \in Adders : AddPatternWrite(a)
    \/ \E c \in Calls : Cancel(c)
    \/ \E c \in Calls, text \in Texts : ScanCall(c, text)
    \/ \E c \in Calls, i \in TaskIds : ScanChunkRLock(c, i)
    \/ \E c \in Calls, i \in TaskIds, name \in PatternNames :
          ScanChunkPass(c, i, name)
    \/ \E c \in Calls, i \in TaskIds : ScanChunkEmpty(c, i)
    \/ \E c \in Calls : ScanDirectReturn(c)
    \/ \E c \in Calls, i \in TaskIds : TaskAcquire(c, i)
    \/ \E c \in Calls, i \in TaskIds : TaskSendErr(c, i)
    \/ \E c \in Calls, i \in TaskIds : TaskSendResults(c, i)
    \/ \E c \in Calls, i \in TaskIds : TaskDropResults(c, i)
    \/ \E c \in Calls, i \in TaskIds : TaskExit(c, i)
    \/ \E c \in Calls : CloserCloseResults(c)
    \/ \E c \in Calls : CloserCloseErr(c)
    \/ \E c \in Calls : CollectCtxDone(c)
    \/ \E c \in Calls : CollectErr(c)
    \/ \E c \in Calls : CollectErrClosed(c)
    \/ \E c \in Calls : CollectResults(c)
    \/ \E c \in Calls : CollectClosed(c)

\* Patterns registered first, then sequential scans.
Init == InitWith(SetupPlan)
Spec == Init /\ [][Next]_vars

\* AddPattern racing with a scan.
InitRace == InitWith(RacePlan)
SpecRace == InitRace /\ [][Next]_vars

\* One scan of a text with more chunks than workers.
InitPool == InitWith(PoolPlan)
SpecPool == InitPool /\ [][Next]_vars

(***************************************************************************)
(* StreamScan (lines 208-242): the producer goroutine reads the input line *)
(* by line with a bufio.Scanner, extracts from each line with scanChunk    *)
(* (task 0 of the call) and sends the findings on a buffered channel; the  *)
(* consumer receives from it.                                              *)
(***************************************************************************)
\* bufio.ScanLines: a trailing "\r" is dropped from the line.
dropCR(data) ==
    IF Len(data) > 0 /\ data[Len(data)] = CR
    THEN SubSeq(data, 1, Len(data) - 1)
    ELSE data

\* bytes.IndexByte(text[pos:], '\n') as a position of text, -1 if none.
IndexNL(text, pos) ==
    LET at == {j \in pos..Len(text) - 1 : text[j + 1] = NL}
    IN  IF at = {} THEN -1 ELSE CHOOSE j \in at : \A k \in at : j <= k

\* scanner.Scan() and scanner.Text() with the reader at pos: whether there
\* is a line, the line, and the reader's position after it.
ScanLine(text, pos) ==
    IF pos >= Len(text) THEN [ok |-> FALSE, line |-> <<>>, next |-> pos]
    ELSE LET j == IndexNL(text, pos)
         IN  IF j >= 0
             THEN [ok |-> TRUE, line |-> dropCR(Slice(text, pos, j)),
                   next |-> j + 1]
             ELSE [ok |-> TRUE, line |-> dropCR(Slice(text, pos, Len(text))),
                   next |-> Len(text)]

\* Lines 208-213 and 241: the channel is made, the producer started, the
\* channel returned.
StreamScanCall(c, text) ==
    /\ callPc[c] = "idle"
    /\ c \in plan.streams
    /\ text \in plan.lines
    /\ plan.setup => \A a \in Adders : addPc[a] \in {"idle", "done"}
    /\ \A d \in Calls \ plan.streams :
           /\ callPc[d] \in {"idle", "returned"}
           /\ \A i \in TaskIds : task[d][i].pc \in {"none", "done"}
           /\ closerPc[d] \in {"none", "done"}
    /\ callPc' = [callPc EXCEPT ![c] = "streaming"]
    /\ callText' = [callText EXCEPT ![c] = text]
    /\ ctxDoneAtCall' = [ctxDoneAtCall EXCEPT ![c] = ctxDone[c]]
    /\ stream' = [stream EXCEPT ![c] = [NoStream EXCEPT !.pc = "scan"]]
    /\ UNCHANGED <<plan, workers, options, fn, registryVars, cacheVars, ctxDone,
                   allResults, collected, ret, task, chanVars, streamChan,
                   received>>

\* A producer that also stops when Scan has stored a result for its text.
StreamLoopEnds_OnCacheHit(c, ok) ==
    ~ok \/ ctxDone[c] \/ CacheHas(callText[c])

\* Lines 217-222: the loop ends when scanner.Scan() has no line or the
\* context is done.
StreamLoopEnds(c, ok) == ~ok \/ ctxDone[c]

\* Lines 217-225: the next line is read; a done context or the end of the
\* input ends the loop, otherwise scanChunk is called on the line.
StreamNextLine(c) ==
    /\ stream[c].pc = "scan"
    /\ LET l == ScanLine(callText[c], stream[c].pos)
       IN  IF StreamLoopEnds(c, l.ok)
           THEN /\ stream' = [stream EXCEPT ![c].pc = "close",
                                            ![c].pos = l.next]
                /\ task' = task
           ELSE /\ stream' = [stream EXCEPT ![c].pc = "extract",
                                            ![c].pos = l.next,
                                            ![c].lineStart = stream[c].pos,
                                            ![c].lineNo = @ + 1,
                                            ![c].lineLen = Len(l.line)]
                /\ task' = [task EXCEPT ![c][0] =
                               [IdleTask EXCEPT !.pc = "rlock",
                                                !.text = l.line,
                                                !.offset = stream[c].offset]]
    /\ UNCHANGED <<plan, workers, options, fn, registryVars, cacheVars, callVars,
                   ctxDone, chanVars, streamChan, received>>

\* The producer's offset left as it is after a line.
NextOffset_NotAdvanced(offset, lineLen) == offset

\* Line 237: offset += len(line) + 1
NextOffset(offset, lineLen) == offset + lineLen + 1

\* The producer after the last result of a line was sent.
LineDone(st) ==
    [st EXCEPT !.pc = "scan", !.pending = <<>>,
               !.offset = NextOffset(st.offset, st.lineLen)]

\* Lines 225-230: scanChunk has returned; an error ends the loop, otherwise
\* the results are ranged over in the order of the slice.
StreamLineScanned(c) ==
    /\ stream[c].pc = "extract"
    /\ task[c][0].pc = "scanned"
    /\ task' = [task EXCEPT ![c][0] = IdleTask]
    /\ IF task[c][0].err # NoErr
       THEN stream' = [stream EXCEPT ![c].pc = "close"]
       ELSE \E results \in Orders(BagToSet(task[c][0].final)) :
               LET tagged == [k \in 1..Len(results) |->
                                 [line |-> stream[c].lineNo,
                                  result |-> results[k]]]
                   found == [stream[c] EXCEPT !.extracted = @ \o tagged]
               IN  stream' = [stream EXCEPT ![c] =
                       IF results = <<>> THEN LineDone(found)
                       ELSE [found EXCEPT !.pc = "send",
                                          !.pending = tagged]]
    /\ UNCHANGED <<plan, workers, options, fn, registryVars, cacheVars, callVars,
                   ctxDone, chanVars, streamChan, received>>

\* A channel that takes a send whatever it holds.
StreamHasRoom_Unbounded(buf) == TRUE

\* A send on the output channel blocks while its buffer is full.
StreamHasRoom(buf) == Len(buf) < streamBuffer

\* Line 234: resultsChan <- result
StreamSend(c) ==
    /\ stream[c].pc = "send"
    /\ StreamHasRoom(streamChan[c].buf)
    /\ streamChan' = [streamChan EXCEPT
                         ![c].buf = Append(@, Head(stream[c].pending))]
    /\ stream' = [stream EXCEPT ![c] =
                     IF Tail(stream[c].pending) = <<>> THEN LineDone(@)
                     ELSE [@ EXCEPT !.pending = Tail(@)]]
    /\ UNCHANGED <<plan, workers, options, fn, registryVars, cacheVars, callVars,
                   ctxDone, task, chanVars, received>>

\* A send whose select has no ctx.Done() case.
SendAborts_Never(done) == FALSE

\* Lines 231-233: the select may take case <-ctx.Done() once it is ready.
SendAborts(done) == done

StreamSendCancelled(c) ==
    /\ stream[c].pc = "send"
    /\ SendAborts(ctxDone[c])
    /\ stream' = [stream EXCEPT ![c].pc = "close"]
    /\ UNCHANGED <<plan, workers, options, fn, registryVars, cacheVars, callVars,
                   ctxDone, task, chanVars, streamChan, received>>

\* Line 214, the deferred close(resultsChan), as the goroutine returns.
StreamClose(c) ==
    /\ stream[c].pc = "close"
    /\ streamChan' = [streamChan EXCEPT ![c].closed = TRUE,
                                        ![c].closes = @ + 1]
    /\ stream' = [stream EXCEPT ![c].pc = "done", ![c].pending = <<>>]
    /\ UNCHANGED <<plan, workers, options, fn, registryVars, cacheVars, callVars,
                   ctxDone, task, chanVars, received>>

\* The consumer receives the oldest buffered finding.
StreamReceive(c) ==
    /\ streamChan[c].buf # <<>>
    /\ received' = [received EXCEPT ![c] = Append(@, Head(streamChan[c].buf))]
    /\ streamChan' = [streamChan EXCEPT ![c].buf = Tail(@)]
    /\ UNCHANGED <<plan, workers, options, fn, registryVars, cacheVars, callVars,
                   ctxDone, task, chanVars, stream>>

StreamPlan ==
    [calls |-> 0, adds |-> MaxAdds - 1, setup |-> TRUE, texts |-> {},
     options |-> {<<>>}, concurrent |-> FALSE, streams |-> {1},
     lines |-> StreamTexts, pure |-> FALSE]

NextStream ==
    \/ \E a \in Adders, name \in PatternNames, pattern \in PatternSources :
          AddPatternCall(a, name, pattern)
    \/ \E a \in Adders : AddPatternLock(a)
    \/ \E a \in Adders : AddPatternAcquire(a)
    \/ \E a \in Adders : AddPatternWrite(a)
    \/ \E c \in Calls : Cancel(c)
    \/ \E c \in Calls, text \in StreamTexts : StreamScanCall(c, text)
    \/ \E c \in Calls : StreamNextLine(c)
    \/ \E c \in Calls : ScanChunkRLock(c, 0)
    \/ \E c \in Calls, name \in PatternNames : ScanChunkPass(c, 0, name)
    \/ \E c \in Calls : ScanChunkEmpty(c, 0)
    \/ \E c \in Calls : StreamLineScanned(c)
    \/ \E c \in Calls : StreamSend(c)
    \/ \E c \in Calls : StreamSendCancelled(c)
    \/ \E c \in Calls : StreamClose(c)
    \/ \E c \in Calls : StreamReceive(c)

InitStream == InitWith(StreamPlan)
SpecStream == InitStream /\ [][NextStream]_vars

\* A step of the producer goroutine of call c.
ProducerStep(c) ==
    \/ StreamNextLine(c)
    \/ ScanChunkRLock(c, 0)
    \/ \E name \in PatternNames : ScanChunkPass(c, 0, name)
    \/ ScanChunkEmpty(c, 0)
    \/ StreamLineScanned(c)
    \/ StreamSend(c)
    \/ StreamSendCancelled(c)
    \/ StreamClose(c)

\* The scheduler runs a goroutine that can take a step; nothing is assumed
\* of the consumer or of cancel().
SpecStreamLive ==
    SpecStream /\ \A c \in Calls : WF_vars(ProducerStep(c))

(***************************************************************************)
(* Two Scan calls of one short text at the same time, after two patterns   *)
(* were registered: the registry and the direct path.                      *)
(***************************************************************************)
\* Two Scan calls of one short text, one after the other, while patterns
\* are added at any time: before, between and during the scans.
StalePlan ==
    [calls |-> MaxCalls, adds |-> MaxAdds, setup |-> FALSE,
     texts |-> {TextDirect}, options |-> {<<>>},
     concurrent |-> FALSE, streams |-> {}, lines |-> {}, pure |-> FALSE]

TwinPlan ==
    [calls |-> MaxCalls, adds |-> MaxAdds, setup |-> TRUE,
     texts |-> {TextDirect}, options |-> {<<>>},
     concurrent |-> TRUE, streams |-> {}, lines |-> {}, pure |-> FALSE]

NextDirect ==
    \/ \E a \in Adders, name \in PatternNames, pattern \in PatternSources :
          AddPatternCall(a, name, pattern)
    \/ \E a \in Adders : AddPatternLock(a)
    \/ \E a \in Adders : AddPatternAcquire(a)
    \/ \E a \in Adders : AddPatternWrite(a)
    \/ \E c \in Calls : Cancel(c)
    \/ \E c \in Calls, text \in Texts : ScanCall(c, text)
    \/ \E c \in Calls : ScanChunkRLock(c, 0)
    \/ \E c \in Calls, name \in PatternNames : ScanChunkPass(c, 0, name)
    \/ \E c \in Calls : ScanChunkEmpty(c, 0)
    \/ \E c \in Calls : ScanDirectReturn(c)

InitTwin == InitWith(TwinPlan)
SpecTwin == InitTwin /\ [][NextDirect]_vars

InitStale == InitWith(StalePlan)
SpecStale == InitStale /\ [][NextDirect]_vars

(***************************************************************************)
(* The whole Scanner: AddPattern, Scan and StreamScan on one value.        *)
(***************************************************************************)
NextScanner ==
    \/ Next
    \/ \E c \in Calls, text \in StreamTexts : StreamScanCall(c, text)
    \/ \E c \in Calls : StreamNextLine(c)
    \/ \E c \in Calls : StreamLineScanned(c)
    \/ \E c \in Calls : StreamSend(c)
    \/ \E c \in Calls : StreamSendCancelled(c)
    \/ \E c \in Calls : StreamClose(c)
    \/ \E c \in Calls : StreamReceive(c)

\* New with no option, with one WithWorkers(n) and with two, n from -1 on;
\* then either a Scan or a StreamScan on the scanner.
GivenOptions == UNION {[1..k -> -1..MaxWorkers] : k \in 0..MaxOptions}
OptionsScanPlan ==
    [calls |-> 1, adds |-> MaxAdds - 1, setup |-> TRUE,
     texts |-> {TextDirect, TextTwoChunks}, options |-> GivenOptions,
     concurrent |-> FALSE, streams |-> {}, lines |-> {}, pure |-> FALSE]
OptionsStreamPlan ==
    [calls |-> 0, adds |-> MaxAdds - 1, setup |-> TRUE, texts |-> {},
     options |-> GivenOptions, concurrent |-> FALSE, streams |-> {1},
     lines |-> {LinesLF}, pure |-> FALSE]

InitOptions == InitWith(OptionsScanPlan) \/ InitWith(OptionsStreamPlan)
SpecOptions == InitOptions /\ [][NextScanner]_vars

\* One Scan of a text of two chunks on a single worker.
OneWorkerPlan ==
    [calls |-> 1, adds |-> MaxAdds - 1, setup |-> TRUE,
     texts |-> {TextTwoChunks}, options |-> {<<1>>},
     concurrent |-> FALSE, streams |-> {}, lines |-> {}, pure |-> FALSE]

\* What the goroutines of Scan's parallel path and of StreamScan, their
\* callers and cancel() do.
NextGoroutines ==
    \/ \E a \in Adders, name \in PatternNames, pattern \in PatternSources :
          AddPatternCall(a, name, pattern)
    \/ \E a \in Adders : AddPatternLock(a)
    \/ \E a \in Adders : AddPatternAcquire(a)
    \/ \E a \in Adders : AddPatternWrite(a)
    \/ \E c \in Calls : Cancel(c)
    \/ \E c \in Calls, text \in Texts : ScanCall(c, text)
    \/ \E c \in Calls, i \in TaskIds : ScanChunkRLock(c, i)
    \/ \E c \in Calls, i \in TaskIds, name \in PatternNames :
          ScanChunkPass(c, i, name)
    \/ \E c \in Calls, i \in TaskIds : ScanChunkEmpty(c, i)
    \/ \E c \in Calls, i \in TaskIds : TaskAcquire(c, i)
    \/ \E c \in Calls, i \in TaskIds : TaskSendErr(c, i)
    \/ \E c \in Calls, i \in TaskIds : TaskSendResults(c, i)
    \/ \E c \in Calls, i \in TaskIds : TaskDropResults(c, i)
    \/ \E c \in Calls, i \in TaskIds : TaskExit(c, i)
    \/ \E c \in Calls : CloserCloseResults(c)
    \/ \E c \in Calls : CloserCloseErr(c)
    \/ \E c \in Calls : CollectCtxDone(c)
    \/ \E c \in Calls : CollectErr(c)
    \/ \E c \in Calls : CollectErrClosed(c)
    \/ \E c \in Calls : CollectResults(c)
    \/ \E c \in Calls : CollectClosed(c)
    \/ \E c \in Calls, text \in StreamTexts \cup Texts : StreamScanCall(c, text)
    \/ \E c \in Calls : StreamNextLine(c)
    \/ \E c \in Calls : StreamLineScanned(c)
    \/ \E c \in Calls : StreamSend(c)
    \/ \E c \in Calls : StreamSendCancelled(c)
    \/ \E c \in Calls : StreamClose(c)
    \/ \E c \in Calls : StreamReceive(c)

\* A step of the goroutine Scan starts for chunk i (lines 154-176).
TaskStep(c, i) ==
    \/ TaskAcquire(c, i)
    \/ ScanChunkRLock(c, i)
    \/ \E name \in PatternNames : ScanChunkPass(c, i, name)
    \/ ScanChunkEmpty(c, i)
    \/ TaskSendErr(c, i)
    \/ TaskSendResults(c, i)
    \/ TaskDropResults(c, i)
    \/ TaskExit(c, i)

\* A step of the closer goroutine (lines 180-184).
CloserStep(c) == CloserCloseResults(c) \/ CloserCloseErr(c)

\* The scheduler runs every started goroutine that can take a step; nothing
\* is assumed of the callers (Scan's collection loop, the consumer of the
\* stream, cancel()).
InitGoroutines == InitWith(OneWorkerPlan) \/ InitWith(StreamPlan)
SpecGoroutines ==
    /\ InitGoroutines
    /\ [][NextGoroutines]_vars
    /\ \A c \in Calls :
          /\ \A i \in TaskIds \ {0} : WF_vars(TaskStep(c, i))
          /\ WF_vars(CloserStep(c))
          /\ WF_vars(ProducerStep(c))

\* A step of Scan's collection loop that takes something from a channel
\* or returns (lines 187-204).  The receive of nil from the closed errChan
\* changes nothing and is not among them.
CollectStep(c) ==
    \/ CollectCtxDone(c)
    \/ CollectErr(c)
    \/ CollectResults(c)
    \/ CollectClosed(c)

\* The patterns are added, then one Scan of a text of two or of three
\* chunks runs, with every worker count.
ParallelPlan ==
    [calls |-> 1, adds |-> MaxAdds - 1, setup |-> TRUE,
     texts |-> {TextTwoChunks, TextThreeChunks}, options |-> GivenWorkers,
     concurrent |-> FALSE, streams |-> {}, lines |-> {}, pure |-> FALSE]

\* What Scan's parallel path does (lines 144-204): the caller, the chunk
\* goroutines, the closer, and cancel(), after the patterns were added.
NextParallel ==
    \/ \E a \in Adders, name \in PatternNames, pattern \in PatternSources :
          AddPatternCall(a, name, pattern)
    \/ \E a \in Adders : AddPatternLock(a)
    \/ \E a \in Adders : AddPatternAcquire(a)
    \/ \E a \in Adders : AddPatternWrite(a)
    \/ \E c \in Calls : Cancel(c)
    \/ \E c \in Calls, text \in Texts : ScanCall(c, text)
    \/ \E c \in Calls, i \in TaskIds : ScanChunkRLock(c, i)
    \/ \E c \in Calls, i \in TaskIds, name \in PatternNames :
          ScanChunkPass(c, i, name)
    \/ \E c \in Calls, i \in TaskIds : ScanChunkEmpty(c, i)
    \/ \E c \in Calls, i \in TaskIds : TaskAcquire(c, i)
    \/ \E c \in Calls, i \in TaskIds : TaskSendErr(c, i)
    \/ \E c \in Calls, i \in TaskIds : TaskSendResults(c, i)
    \/ \E c \in Calls, i \in TaskIds : TaskDropResults(c, i)
    \/ \E c \in Calls, i \in TaskIds : TaskExit(c, i)
    \/ \E c \in Calls : CloserCloseResults(c)
    \/ \E c \in Calls : CloserCloseErr(c)
    \/ \E c \in Calls : CollectCtxDone(c)
    \/ \E c \in Calls : CollectErr(c)
    \/ \E c \in Calls : CollectErrClosed(c)
    \/ \E c \in Calls : CollectResults(c)
    \/ \E c \in Calls : CollectClosed(c)

\* Every goroutine of the parallel path is scheduled fairly, and the select
\* of the collection loop, which chooses among its ready cases at random,
\* does not pass over a ready case forever.
InitParallel == InitWith(ParallelPlan)
SpecParallel ==
    /\ InitParallel
    /\ [][NextParallel]_vars
    /\ \A c \in Calls :
          /\ \A i \in TaskIds \ {0} : WF_vars(TaskStep(c, i))
          /\ WF_vars(CloserStep(c))
          /\ WF_vars(CollectStep(c))

\* A Scan of a text of two lines and a StreamScan of a reader holding the
\* same text, on one scanner.
SameTextPlan ==
    [calls |-> 1, adds |-> MaxAdds - 1, setup |-> TRUE,
     texts |-> {TextTwoChunks}, options |-> {<<>>},
     concurrent |-> FALSE, streams |-> {MaxCalls}, lines |-> {TextTwoChunks},
     pure |-> FALSE]

InitSameText == InitWith(SameTextPlan)
SpecSameText == InitSameText /\ [][NextGoroutines]_vars

(***************************************************************************)
(* The pure functions, applied to drawn arguments: the splitter, the two   *)
(* paths of Scan over one text (the parallel path with a chunk size below  *)
(* the program's), and maskSecret.                                         *)
(***************************************************************************)
FnPlan ==
    [calls |-> 0, adds |-> 0, setup |-> TRUE, texts |-> {},
     options |-> {<<>>}, concurrent |-> FALSE, streams |-> {},
     lines |-> {}, pure |-> TRUE]

scannerVars ==
    <<plan, workers, options, registryVars, cacheVars, callVars, ctxDone, task,
      chanVars, streamVars>>

\* Lines 81-102 of an uncancelled scanChunk: the results appended over all
\* registered patterns, before the grouping by line.
RawResults(pats, chunk, offset) ==
    UNION {{PassResults(name, pats[name], chunk, offset)[k] :
               k \in 1..Len(FindAllStringIndex(pats[name], chunk))} :
           name \in Registered(pats)}

\* Line 136: the direct path extracts from the whole text at offset 0.
DirectPath(pats, text) == RawResults(pats, text, 0)

\* Lines 145-176: the parallel path extracts from every chunk at its offset.
ParallelPath(pats, chunks) ==
    UNION {RawResults(pats, chunks[k].text, chunks[k].offset) :
               k \in 1..Len(chunks)}

FnSplit ==
    /\ fn.op = "none"
    /\ fn' = [fn EXCEPT !.op = "split",
                        !.chunks = IF fn.size = chunkSize
                                   THEN splitIntoChunks(fn.text)
                                   ELSE chunksFrom(fn.text, fn.size, 0)]
    /\ UNCHANGED scannerVars

FnPaths ==
    /\ fn.op = "none"
    /\ fn' = [fn EXCEPT !.op = "paths",
                        !.direct = DirectPath(fn.pats, fn.text),
                        !.forced = ParallelPath(fn.pats,
                                       chunksFrom(fn.text, fn.size, 0))]
    /\ UNCHANGED scannerVars

FnMask ==
    /\ fn.op = "none"
    /\ fn' = [fn EXCEPT !.op = "mask", !.masked = maskSecret(fn.text)]
    /\ UNCHANGED scannerVars

NextFn == FnSplit \/ FnPaths \/ FnMask

InitFn == InitWith(FnPlan)
SpecFn == InitFn /\ [][NextFn]_vars

(***************************************************************************)
(* The patterns package: CalculateEntropy and IsLikelySecret.  A string is *)
(* a sequence of characters (runes); Go's len(s) counts its bytes, and a   *)
(* character outside ASCII takes more than one.  float64 entropies are     *)
(* carried in thousandths of a bit, rounded down.                          *)
(***************************************************************************)
Uppers == <<"A", "B", "C", "D", "E", "F", "G", "H", "I", "J", "K", "L", "M", "N", "O", "P", "Q", "R", "S", "T", "U", "V", "W", "X", "Y", "Z">>
Lowers == <<"a", "b", "c", "d", "e", "f", "g", "h", "i", "j", "k", "l", "m", "n", "o", "p", "q", "r", "s", "t", "u", "v", "w", "x", "y", "z">>
Digits == {"0", "1", "2", "3", "4", "5", "6", "7", "8", "9"}
Specials ==
    {"!", "@", "#", "$", "%", "^", "&", "*", "(", ")", "_", "+", "-", "=", "[", "]", "{", "}", "|", ";", ":", ",", ".", "<", ">", "?"}
\* Two letters outside ASCII: e with acute accent, small and capital.
EAcute == "U+00E9"
EAcuteUpper == "U+00C9"

Range(f) == {f[k] : k \in DOMAIN f}

\* utf8.RuneLen
RuneLen(ch) == IF ch \in {EAcute, EAcuteUpper} THEN 2 ELSE 1

\* len(s): the number of bytes of s.
ByteLen(s) ==
    LET upTo[k \in 0..Len(s)] ==
            IF k = 0 THEN 0 ELSE upTo[k - 1] + RuneLen(s[k])
    IN  upTo[Len(s)]

\* unicode.ToLower
ToLowerRune(ch) ==
    IF ch \in Range(Uppers)
    THEN Lowers[CHOOSE k \in DOMAIN Uppers : Uppers[k] = ch]
    ELSE IF ch = EAcuteUpper THEN EAcute ELSE ch

\* strings.ToLower
ToLower(s) == [k \in DOMAIN s |-> ToLowerRune(s[k])]

\* strings.ContainsAny
ContainsAny(s, chars) == \E k \in DOMAIN s : s[k] \in chars

\* math.Log2 of 1..120 in thousandths of a bit, rounded to the nearest.
Log2Milli ==
    <<
      0, 1000, 1585, 2000, 2322, 2585, 2807, 3000, 3170, 3322,
      3459, 3585, 3700, 3807, 3907, 4000, 4087, 4170, 4248, 4322,
      4392, 4459, 4524, 4585, 4644, 4700, 4755, 4807, 4858, 4907,
      4954, 5000, 5044, 5087, 5129, 5170, 5209, 5248, 5285, 5322,
      5358, 5392, 5426, 5459, 5492, 5524, 5555, 5585, 5615, 5644,
      5672, 5700, 5728, 5755, 5781, 5807, 5833, 5858, 5883, 5907,
      5931, 5954, 5977, 6000, 6022, 6044, 6066, 6087, 6109, 6129,
      6150, 6170, 6190, 6209, 6229, 6248, 6267, 6285, 6304, 6322,
      6340, 6358, 6375, 6392, 6409, 6426, 6443, 6459, 6476, 6492,
      6508, 6524, 6539, 6555, 6570, 6585, 6600, 6615, 6629, 6644,
      6658, 6672, 6687, 6700, 6714, 6728, 6741, 6755, 6768, 6781,
      6794, 6807, 6820, 6833, 6845, 6858, 6870, 6883, 6895, 6907
    >>

RECURSIVE SumOver(_, _)
\* The sum of f over the elements of S.
SumOver(f, S) ==
    IF S = {} THEN 0
    ELSE LET x == CHOOSE y \in S : TRUE
         IN  f[x] + SumOver(f, S \ {x})

\* Lines 82-85: for _, c := range s { charCount[c]++ } counts per rune.
CharCount(s) ==
    [ch \in Range(s) |-> Cardinality({k \in DOMAIN s : s[k] = ch})]

\* The entropy sum over a count table with the given length:
\* -(count/length) * log2(count/length) for every entry.
EntropyOf(charCount, length) ==
    SumOver([ch \in DOMAIN charCount |->
                charCount[ch]
                    * (Log2Milli[length] - Log2Milli[charCount[ch]])],
            DOMAIN charCount) \div length

\* CalculateEntropy: the length is float64(len(s)), the byte count.
CalculateEntropy(s) ==
    IF ByteLen(s) = 0 THEN 0 ELSE EntropyOf(CharCount(s), ByteLen(s))

minSecretLen == 8
maxSecretLen == 100
minCharacterTypes == 3

password == <<"p", "a", "s", "s", "w", "o", "r", "d">>
commonWords ==
    {password, <<"s", "e", "c", "r", "e", "t">>, <<"k", "e", "y">>, <<"t", "o", "k", "e", "n">>}

\* Lines 120-139: how many of the four character classes s has.
characterTypes(s) ==
    Cardinality({class \in {Range(Uppers), Range(Lowers), Digits, Specials} :
                    ContainsAny(s, class)})

IsLikelySecret(s, entropyThreshold) ==
    IF ByteLen(s) < minSecretLen \/ ByteLen(s) > maxSecretLen THEN FALSE
    ELSE IF ToLower(s) \in commonWords THEN FALSE
    ELSE IF CalculateEntropy(s) < entropyThreshold THEN FALSE
    ELSE characterTypes(s) >= minCharacterTypes

\* Strings given by how often each of a few characters occurs: a capital,
\* a digit, a special character, a letter outside ASCII, and a small
\* letter whose count takes the string up to and over the length limits.
CountedString(nA, n1, nS, nE, na) ==
    Rep("A", nA) \o Rep("1", n1) \o Rep("!", nS) \o Rep(EAcute, nE)
        \o Rep("a", na)
CountedStrings ==
    {CountedString(nA, n1, nS, nE, na) :
        nA \in 0..2, n1 \in 0..1, nS \in 0..1, nE \in 0..3,
        na \in 0..6 \cup maxSecretLen - 5..maxSecretLen + 1}
\* The inputs of the package's tests (TestCalculateEntropy,
\* TestIsLikelySecret) and the common words in both cases.
TestStrings ==
    {<<"a", "B", "3", "$", "x", "K", "9", "#", "m", "P">>,
     <<"a", "a", "a", "a", "a", "a", "a", "a", "a", "a">>,
     <<"A", "I", "z", "a", "S", "y", "C", "9", "3", "b", "6", "F", "x", "R", "4", "r", "4", "Q", "1", "j", "I">>,
     <<"M", "y", "P", "@", "s", "s", "w", "0", "r", "d", "1", "2", "3", "!">>,
     <<"a", "b", "c", "1", "2", "3">>,
     password, <<"P", "A", "S", "S", "W", "O", "R", "D">>, <<"P", "a", "s", "s", "w", "o", "r", "d">>,
     <<"s", "e", "c", "r", "e", "t">>, <<"k", "e", "y">>, <<"t", "o", "k", "e", "n">>}
EntropyStrings == CountedStrings \cup TestStrings
\* Thresholds in thousandths of a bit; 3.5 is the tests', 4.0 and 4.5 are
\* among EntropyThresholds.
Thresholds == {0, 1000, 2000, 3000, 3500, 4000, 4500}

NoEntropy == [op |-> "none", s |-> <<>>, threshold |-> 0, entropy |-> 0,
              likely |-> FALSE]
EntropyInputs ==
    {[NoEntropy EXCEPT !.s = s, !.threshold = t] :
        s \in EntropyStrings, t \in Thresholds}

FnEntropy ==
    /\ fn.op = "none"
    /\ fn' = [fn EXCEPT !.op = "entropy", !.entropy = CalculateEntropy(fn.s)]
    /\ UNCHANGED scannerVars

FnLikely ==
    /\ fn.op = "none"
    /\ fn' = [fn EXCEPT !.op = "likely",
                        !.likely = IsLikelySecret(fn.s, fn.threshold)]
    /\ UNCHANGED scannerVars

NextEntropy == FnEntropy \/ FnLikely

InitEntropy == InitScanner(FnPlan) /\ fn \in EntropyInputs
SpecEntropy == InitEntropy /\ [][NextEntropy]_vars

(***************************************************************************)
(* Vocabulary of the properties.                                           *)
(***************************************************************************)
HasReturned(c) == callPc[c] = "returned"

\* The call went down the parallel path: its chunk tasks were started.
TookParallelPath(c) == HasReturned(c) /\ closerPc[c] # "none"

\* The call ran no extraction and started no goroutine.
RanNothing(c) ==
    /\ \A i \in TaskIds : task[c][i].pc = "none"
    /\ closerPc[c] = "none"

ChunkTasks(text) == 1..Len(splitIntoChunks(text))

\* The chunks a complete result for text is made of.
AllChunks(text) ==
    IF Len(text) < smallTextThreshold THEN {0} ELSE ChunkTasks(text)

Findings(c) == BagToSet(ret[c].results)

RECURSIVE RawInOrder(_, _, _, _)
\* scanChunk's results before grouping when the patterns are visited in
\* order o.
RawInOrder(o, pats, chunk, offset) ==
    IF o = <<>> THEN <<>>
    ELSE PassResults(Head(o), pats[Head(o)], chunk, offset)
             \o RawInOrder(Tail(o), pats, chunk, offset)

\* What an uncancelled scanChunk of chunk under pats can return.
Extractions(pats, chunk, offset) ==
    {Dedup(RawInOrder(o, pats, chunk, offset)) : o \in Orders(Registered(pats))}

RECURSIVE Merged(_, _)
\* The merges of one extraction per chunk.
Merged(pats, chunks) ==
    IF chunks = <<>> THEN {EmptyBag}
    ELSE {r (+) rest :
             r \in Extractions(pats, Head(chunks).text, Head(chunks).offset),
             rest \in Merged(pats, Tail(chunks))}

\* The complete result sets of text under the registry pats.
CompleteResults(pats, text) ==
    IF Len(text) < smallTextThreshold
    THEN Extractions(pats, text, 0)
    ELSE Merged(pats, splitIntoChunks(text))

(***************************************************************************)
(* C1: batch Scan is all-or-nothing.  A parallel-path Scan returns either  *)
(* an error and no findings or a nil error and the findings of every       *)
(* chunk, never a nil error with the findings of only some chunks.  (With  *)
(* setup the registry does not change once Scan is called, so the result   *)
(* is measured against the registry as it is.)                             *)
(***************************************************************************)
C1_AllOrNothing ==
    \A c \in Calls :
        plan.setup /\ TookParallelPath(c) =>
            IF ret[c].err = NoErr
            THEN ret[c].results \in CompleteResults(patterns, callText[c])
            ELSE ret[c].results = EmptyBag

(***************************************************************************)
(* C2: the cache holds only complete results of successful scans: every    *)
(* entry holds the findings of every chunk of its text.                    *)
(***************************************************************************)
C2_CacheComplete ==
    \A t \in DOMAIN cache :
        plan.setup => cache[t] \in CompleteResults(patterns, t)

\* When the loop has appended the results of every chunk task, what Scan
\* returns and stores is a complete result.
CollectedAllIsComplete ==
    \A c \in Calls :
        /\ plan.setup
        /\ HasReturned(c)
        /\ ret[c].err = NoErr
        /\ collected[c] = AllChunks(callText[c])
        => /\ ret[c].results \in CompleteResults(patterns, callText[c])
           /\ cache[callText[c]] = ret[c].results

(***************************************************************************)
(* C3: a Scan whose context is already cancelled when it is called returns *)
(* the cancellation error and no findings in its first step, whether or    *)
(* not the text is cached; it starts no task and no closer, runs no        *)
(* extraction and leaves the cache as it was.                              *)
(***************************************************************************)
C3_CalledCancelled ==
    /\ [](\A c \in Calls :
            HasReturned(c) /\ ctxDoneAtCall[c] =>
                /\ ret[c] = Returned(EmptyBag, ErrCancelled)
                /\ RanNothing(c))
    /\ [][\A c \in Calls :
            callPc[c] = "idle" /\ callPc'[c] # "idle" /\ ctxDone[c] =>
                /\ callPc'[c] = "returned"
                /\ UNCHANGED <<cache, task, patternMutex, sem, wg,
                               closerPc, resultsChan, errChan>>]_vars

C3_Witness ==
    \E c \in Calls :
        /\ HasReturned(c)
        /\ ctxDoneAtCall[c]
        /\ callText[c] \in DOMAIN cache
        /\ cache[callText[c]] # EmptyBag

(***************************************************************************)
(* C4: a parallel-path Scan whose context is cancelled before its          *)
(* collection loop has returned gives back the cancellation error and no   *)
(* result set.  (Cancel acts only on calls that have not returned.)        *)
(***************************************************************************)
C4_CancelAborts ==
    \A c \in Calls :
        TookParallelPath(c) /\ ctxDone[c] =>
            ret[c] = Returned(EmptyBag, ErrCancelled)

(***************************************************************************)
(* C5: the chunk tasks of a Scan that hold a semaphore slot, from the      *)
(* acquire to the deferred release, number at most workers.                *)
(***************************************************************************)
SlotHolders(c) ==
    {i \in TaskIds \ {0} :
        task[c][i].pc \in {"rlock", "pass", "scanned", "exit"}}

C5_SlotsBounded ==
    \A c \in Calls : Cardinality(SlotHolders(c)) <= workers

\* All slots taken, every holder inside its extraction, a task kept out.
C5_Witness ==
    \E c \in Calls :
        /\ Cardinality(SlotHolders(c)) = workers
        /\ workers > 1
        /\ \A i \in SlotHolders(c) : task[c][i].pc = "pass"
        /\ \E i \in TaskIds : task[c][i].pc = "acquire"

Extracted == {ci \in Calls \X TaskIds :
                 task[ci[1]][ci[2]].pc = "scanned"
                 /\ task[ci[1]][ci[2]].err = NoErr}

Matches(ci) ==
    {task[ci[1]][ci[2]].results[k] :
        k \in 1..Len(task[ci[1]][ci[2]].results)}

Kept(ci) == BagToSet(task[ci[1]][ci[2]].final)

C7_BestPerLine ==
    \A ci \in Extracted :
        /\ BagCardinality(task[ci[1]][ci[2]].final) = Cardinality(Kept(ci))
        /\ \A f, g \in Kept(ci) : f.LineNumber = g.LineNumber => f = g
        /\ \A m \in Matches(ci) :
              \E f \in Kept(ci) :
                  /\ f.LineNumber = m.LineNumber
                  /\ f.Confidence >= m.Confidence
        /\ Kept(ci) \subseteq Matches(ci)

\* Two patterns matched on one line with different confidence.
C7_Witness ==
    \E ci \in Extracted : \E m, n \in Matches(ci) :
        /\ m.LineNumber = n.LineNumber
        /\ m.Type # n.Type
        /\ m.Confidence > n.Confidence

(***************************************************************************)
(* C8: after a successful Scan(t), a later Scan(t) called with a live      *)
(* context returns the same result set with a nil error and runs no        *)
(* extraction.                                                             *)
(***************************************************************************)
C8_CachedRescan ==
    \A c, d \in Calls :
        /\ c < d
        /\ HasReturned(c) /\ HasReturned(d)
        /\ callText[c] = callText[d]
        /\ ret[c].err = NoErr
        /\ ~ctxDoneAtCall[d]
        => /\ ret[d] = ret[c]
           /\ RanNothing(d)

C8_Witness ==
    \E c, d \in Calls :
        /\ c < d
        /\ HasReturned(c) /\ HasReturned(d)
        /\ callText[c] = callText[d]
        /\ ret[c].err = NoErr
        /\ ~ctxDoneAtCall[d]
        /\ ret[d].results # EmptyBag
        /\ TookParallelPath(c)

(***************************************************************************)
(* C9: AddPattern is atomic.  It fails exactly when the source does not    *)
(* compile, and then leaves the registry as it was; when it succeeds, its  *)
(* last step maps the name to the compiled source and changes no other     *)
(* name; no other step of any AddPattern changes the registry.             *)
(***************************************************************************)
C9_AddPatternAtomic ==
    [][/\ \A a \in Adders :
            /\ addPc[a] = "idle" /\ addPc'[a] # "idle" =>
                  /\ patterns' = patterns
                  /\ addPc'[a] = "done" <=>
                        Compile(addArgs'[a].pattern) = CompileError
                  /\ addPc'[a] = "done" => addErr'[a] = ErrInvalidPattern
            /\ addPc[a] = "write" /\ addPc'[a] = "done" =>
                  /\ addErr'[a] = NoErr
                  /\ patterns'[addArgs[a].name] = Compile(addArgs[a].pattern)
                  /\ patterns'[addArgs[a].name] \notin {CompileError, NoMatcher}
                  /\ \A n \in PatternNames \ {addArgs[a].name} :
                        patterns'[n] = patterns[n]
       /\ patterns' # patterns =>
            \E a \in Adders : addPc[a] = "write" /\ addPc'[a] = "done"]_vars

\* One AddPattern has failed and another has installed its matcher.
C9_Witness ==
    /\ \E a \in Adders : addErr[a] = ErrInvalidPattern
    /\ \E a \in Adders : addErr[a] = NoErr
    /\ Registered(patterns) # {}

(***************************************************************************)
(* C10: reader/writer exclusion on the registry: at most one AddPattern is *)
(* inside its write section, and while one is, no scanChunk is inside its  *)
(* read section.                                                           *)
(***************************************************************************)
Writing == {a \in Adders : addPc[a] = "write"}

Reading == {ci \in Calls \X TaskIds : task[ci[1]][ci[2]].pc = "pass"}

C10_ReadWriteExclusion ==
    /\ Cardinality(Writing) <= 1
    /\ Writing # {} => Reading = {}

\* A writer inside, with another writer and a reader kept waiting.
C10_Witness ==
    /\ Writing # {}
    /\ \E a \in Adders : addPc[a] = "lock"
    /\ \E ci \in Calls \X TaskIds : task[ci[1]][ci[2]].pc = "rlock"

\* Any number of extractions read at once.
C10_ReadersShare == Cardinality(Reading) >= 2
(***************************************************************************)
(* C11 as stated: for a text shorter than the threshold, the direct path   *)
(* and the parallel path forced by a lower chunk size find the same        *)
(* underlying matches (type, value, start, end), whatever the patterns.    *)
(***************************************************************************)
Underlying(results) ==
    {[Type |-> r.Type, Value |-> r.Value, StartIndex |-> r.StartIndex,
      EndIndex |-> r.EndIndex] : r \in results}

C11_SameMatches ==
    fn.op = "paths" /\ Len(fn.text) < smallTextThreshold =>
        Underlying(fn.direct) = Underlying(fn.forced)

\* A chunk boundary lies strictly inside the match.
Crosses(r, size) ==
    \E b \in r.StartIndex + 1 .. r.EndIndex - 1 : b % size = 0

\* The registry holds a pattern that matches the empty string.
MatchesEmpty(pats) ==
    \E name \in Registered(pats) : FindAllStringIndex(pats[name], <<>>) # <<>>

(***************************************************************************)
(* C11 amended: the two paths find the same underlying matches when no     *)
(* registered pattern matches the empty string and no match of the direct  *)
(* path crosses a chunk boundary.                                          *)
(***************************************************************************)
C11_SameMatchesInsideChunks ==
    /\ fn.op = "paths"
    /\ Len(fn.text) < smallTextThreshold
    /\ ~MatchesEmpty(fn.pats)
    /\ \A r \in fn.direct : ~Crosses(r, fn.size)
    => Underlying(fn.direct) = Underlying(fn.forced)

\* Both paths found a match in a chunk after the first, on a later line.
C11_Witness ==
    /\ fn.op = "paths"
    /\ Len(fn.text) < smallTextThreshold
    /\ ~MatchesEmpty(fn.pats)
    /\ \A r \in fn.direct : ~Crosses(r, fn.size)
    /\ \E r \in fn.direct, q \in fn.forced :
          /\ r.StartIndex >= fn.size
          /\ Underlying({r}) = Underlying({q})
          /\ r.LineNumber # q.LineNumber

(***************************************************************************)
(* C12: splitIntoChunks partitions the text.  The chunks are non-empty,    *)
(* each starts where the one before ends and carries that position as its  *)
(* offset, every chunk but the last has exactly the chunk size and the     *)
(* last has between 1 and that many bytes, the chunk texts concatenated in *)
(* order are the text, and an empty text gives no chunk.                   *)
(***************************************************************************)
RECURSIVE Concat(_)
Concat(chunks) ==
    IF chunks = <<>> THEN <<>> ELSE Head(chunks).text \o Concat(Tail(chunks))

C12_Partition ==
    fn.op = "split" =>
        LET chunks == fn.chunks
            n == Len(chunks)
        IN  /\ \A k \in 1..n : Len(chunks[k].text) >= 1
            /\ n > 0 => chunks[1].offset = 0
            /\ \A k \in 1..n - 1 :
                  /\ chunks[k + 1].offset =
                        chunks[k].offset + Len(chunks[k].text)
                  /\ Len(chunks[k].text) = fn.size
            /\ n > 0 => Len(chunks[n].text) \in 1..fn.size
            /\ Concat(chunks) = fn.text
            /\ fn.text = <<>> <=> n = 0

\* The program's chunk size, three chunks, the last one short.
C12_Witness ==
    /\ fn.op = "split"
    /\ fn.size = chunkSize
    /\ Len(fn.chunks) = 3
    /\ Len(fn.chunks[3].text) < chunkSize

(***************************************************************************)
(* C20: masking keeps the length and reveals only the ends.  With the      *)
(* expose count n of the shipped code, a secret of at most 2n bytes comes  *)
(* back fully masked; a longer one keeps its first n and last n bytes and  *)
(* has the mask character everywhere in between.                           *)
(***************************************************************************)
exposeCount == 2

C20_MaskKeepsEnds ==
    fn.op = "mask" =>
        LET secret == fn.text
            masked == fn.masked
            n == exposeCount
        IN  /\ Len(masked) = Len(secret)
            /\ Len(secret) <= 2 * n =>
                  \A k \in 1..Len(masked) : masked[k] = "*"
            /\ Len(secret) > 2 * n =>
                  \A k \in 1..Len(masked) :
                      IF k <= n \/ k > Len(secret) - n
                      THEN masked[k] = secret[k]
                      ELSE masked[k] = "*"

\* A secret one byte longer than the fully masked ones.
C20_Witness ==
    /\ fn.op = "mask"
    /\ Len(fn.text) = 2 * exposeCount + 1
    /\ fn.masked[exposeCount + 1] = "*"
(***************************************************************************)
(* C13 as stated: two Scan calls of the same uncached text that both run   *)
(* the scan give the same result, so the cache entry of the text is the    *)
(* same whichever of the two stores last.                                  *)
(***************************************************************************)
\* Calls c and d both ran the scan of one text to a successful return.
BothScanned(c, d) ==
    /\ c # d
    /\ HasReturned(c) /\ HasReturned(d)
    /\ callText[c] = callText[d]
    /\ ret[c].err = NoErr /\ ret[d].err = NoErr
    /\ collected[c] # {} /\ collected[d] # {}

C13_SameEntry ==
    \A c, d \in Calls :
        plan.setup /\ BothScanned(c, d) =>
            /\ ret[c].results = ret[d].results
            /\ cache[callText[c]] = ret[c].results

\* Two matches of different patterns on one line of chunk share the highest
\* confidence of the line.
Tied(pats, chunk) ==
    \E r, q \in RawResults(pats, chunk, 0) :
        /\ r.Type # q.Type
        /\ r.LineNumber = q.LineNumber
        /\ r.Confidence = q.Confidence
        /\ \A m \in RawResults(pats, chunk, 0) :
              m.LineNumber = r.LineNumber => m.Confidence <= r.Confidence

(***************************************************************************)
(* C13 amended: the two calls give the same findings, and the cache entry  *)
(* is the same whichever stores last, when no line of the text has its     *)
(* highest confidence shared by matches of two patterns.                   *)
(***************************************************************************)
C13_SameEntryUnlessTied ==
    \A c, d \in Calls :
        /\ plan.setup
        /\ BothScanned(c, d)
        /\ ~Tied(patterns, callText[c])
        => /\ ret[c].results = ret[d].results
           /\ cache[callText[c]] = ret[c].results

\* Both calls ran the scan with two patterns matching on one line.
C13_Witness ==
    \E c, d \in Calls :
        /\ BothScanned(c, d)
        /\ ~Tied(patterns, callText[c])
        /\ Cardinality({r.Type : r \in RawResults(patterns, callText[c], 0)}) = 2
        /\ ret[c].results # EmptyBag
(***************************************************************************)
(* C14: StreamScan emits findings strictly in line order.  Of two findings *)
(* put on the output channel, the earlier one comes from an earlier line   *)
(* of the input and has the smaller StartIndex.                            *)
(***************************************************************************)
\* The findings the producer has put on the channel, oldest first.
Emitted(c) == received[c] \o streamChan[c].buf

C14_LineOrder ==
    \A c \in Calls :
        \A j, k \in 1..Len(Emitted(c)) :
            j < k =>
                /\ Emitted(c)[j].line < Emitted(c)[k].line
                /\ Emitted(c)[j].result.StartIndex
                       < Emitted(c)[k].result.StartIndex

\* The consumer holds findings of three lines, with a line without a
\* finding in between.
C14_Witness ==
    \E c \in Calls :
        /\ Len(received[c]) >= 3
        /\ \E j \in 1..Len(received[c]) - 1 :
              received[c][j + 1].line > received[c][j].line + 1

(***************************************************************************)
(* C15: StreamScan applies backpressure and does not drop.  The output     *)
(* channel never holds more than its capacity; while it is full the        *)
(* producer, unless its context is cancelled, stays at its send; and as    *)
(* long as the context is not cancelled, the findings extracted from the   *)
(* lines so far are, each exactly once and in order, with the consumer, in *)
(* the channel or about to be sent.                                        *)
(***************************************************************************)
C15_Backpressure ==
    /\ [](\A c \in Calls :
            /\ Len(streamChan[c].buf) <= streamBuffer
            /\ ~ctxDone[c] =>
                  Emitted(c) \o stream[c].pending = stream[c].extracted)
    /\ [][\A c \in Calls :
            /\ stream[c].pc = "send"
            /\ Len(streamChan[c].buf) = streamBuffer
            /\ ~ctxDone[c]
            => /\ stream'[c] = stream[c]
               /\ Len(streamChan'[c].buf) <= Len(streamChan[c].buf)]_vars

\* The channel is full, the producer waits with a finding, the consumer
\* has taken one, and the context is live.
C15_Witness ==
    \E c \in Calls :
        /\ stream[c].pc = "send"
        /\ Len(streamChan[c].buf) = streamBuffer
        /\ Len(received[c]) >= 1
        /\ ~ctxDone[c]

(***************************************************************************)
(* C17: in StreamScan the offset given to scanChunk for a line is the      *)
(* number of bytes of the input before that line, so that every finding    *)
(* put on the channel has the bounds of its value in the input as its      *)
(* StartIndex and EndIndex, whichever way the lines are terminated.        *)
(***************************************************************************)
C17_OffsetIsLineStart ==
    \A c \in Calls :
        /\ stream[c].pc \in {"extract", "send"} =>
              stream[c].offset = stream[c].lineStart
        /\ \A k \in 1..Len(Emitted(c)) :
              LET f == Emitted(c)[k].result
              IN  /\ f.EndIndex <= Len(callText[c])
                  /\ Slice(callText[c], f.StartIndex, f.EndIndex) = f.Value
(***************************************************************************)
(* C16: the output channel of StreamScan is closed exactly once, after the *)
(* last send: it is closed at most once and only by the returning          *)
(* producer, nothing is sent on it afterwards, and once StreamScan is      *)
(* called it is eventually closed, provided the consumer keeps receiving   *)
(* (the channel is again and again not full) or the context is cancelled.  *)
(***************************************************************************)
C16_ClosedOnce ==
    /\ [](\A c \in Calls :
            /\ streamChan[c].closes <= 1
            /\ streamChan[c].closed <=> stream[c].pc = "done")
    /\ [][\A c \in Calls :
            streamChan[c].closed =>
                /\ streamChan'[c].closed
                /\ streamChan'[c].closes = streamChan[c].closes
                /\ Emitted(c)' = Emitted(c)]_vars
    /\ \A c \in Calls :
          \/ []<>(Len(streamChan[c].buf) < streamBuffer)
          \/ <>ctxDone[c]
          => [](callPc[c] = "streaming" => <>streamChan[c].closed)

\* Closed after a cancellation that found the producer waiting at a full
\* channel, with lines left unread.
C16_Witness ==
    \E c \in Calls :
        /\ streamChan[c].closed
        /\ streamChan[c].closes = 1
        /\ Len(streamChan[c].buf) = streamBuffer
        /\ ctxDone[c]
        /\ stream[c].pos < Len(callText[c])

\* No goroutine started by call c is left.
GoroutinesGone(c) ==
    /\ \A i \in TaskIds \ {0} : task[c][i].pc \in {"none", "done"}
    /\ closerPc[c] \in {"none", "done"}
    /\ stream[c].pc \in {"none", "done"}

(***************************************************************************)
(* C18: once the context of a call is cancelled, every goroutine the call  *)
(* started (Scan's chunk tasks and closer, StreamScan's producer)          *)
(* eventually terminates, also when Scan has already returned to its       *)
(* caller.                                                                 *)
(***************************************************************************)
C18_GoroutinesTerminate ==
    \A c \in Calls : [](ctxDone[c] => <>GoroutinesGone(c))

\* Scan returned the cancellation while its tasks were at work: they and
\* the closer have ended since, leaving results that nobody collects.
C18_Witness ==
    \E c \in Calls :
        /\ callPc[c] = "returned"
        /\ ret[c].err = ErrCancelled
        /\ closerPc[c] = "done"
        /\ resultsChan[c].buf # <<>>
        /\ GoroutinesGone(c)

(***************************************************************************)
(* C19: the worker count is at least 1 in every reachable state: it is 4   *)
(* when New gets no option, the n of the last WithWorkers(n) with n > 0    *)
(* otherwise (an n <= 0 leaves it as it was), and AddPattern, Scan and     *)
(* StreamScan never change it.                                             *)
(***************************************************************************)
C19_WorkersPositive ==
    /\ [](workers >= 1)
    /\ [](LET set == {k \in DOMAIN options : options[k] > 0}
          IN  IF set = {} THEN workers = defaultWorkers
              ELSE \E k \in set : /\ \A j \in set : j <= k
                                  /\ workers = options[k])
    /\ [][workers' = workers]_vars

\* New(WithWorkers(n), WithWorkers(m)) with n > 0 >= m: the count is n
\* after an AddPattern and a Scan that ran its chunk tasks.
C19_Witness ==
    /\ Len(options) = 2
    /\ options[1] > 0
    /\ options[2] <= 0
    /\ workers = options[1]
    /\ \E a \in Adders : addPc[a] = "done"
    /\ \E c \in Calls : callPc[c] = "returned" /\ closerPc[c] = "done"

(***************************************************************************)
(* C22: CalculateEntropy returns 0 for the empty string and otherwise the  *)
(* Shannon entropy of the character frequencies count/length, where the    *)
(* length is the one that makes the frequencies sum to 1 (the number of    *)
(* characters); one repeated character scores below ten distinct ones.     *)
(***************************************************************************)
C22_ShannonEntropy ==
    fn.op = "entropy" =>
        LET s == fn.s
            counts == CharCount(s)
            characters == SumOver(counts, DOMAIN counts)
        IN  /\ s = <<>> => fn.entropy = 0
            /\ s # <<>> => fn.entropy = EntropyOf(counts, characters)
            /\ Cardinality(Range(s)) = 1 =>
                   fn.entropy < Log2Milli[Cardinality(Digits)]

\* The Shannon entropy of the character frequencies of s, in thousandths of
\* a bit: every frequency is the character's count over the number of
\* characters.
ShannonEntropy(s) ==
    IF s = <<>> THEN 0 ELSE EntropyOf(CharCount(s), Len(s))

(***************************************************************************)
(* C21: IsLikelySecret(s, threshold) is true exactly when len(s) is        *)
(* between 8 and 100, the lowercase form of s is not a common word, the    *)
(* entropy of s is at least the threshold and s has characters of at least *)
(* 3 of the 4 classes; it is false for every s of length 6 and for         *)
(* "password".                                                             *)
(***************************************************************************)
C21_LikelyExactly ==
    fn.op = "likely" =>
        /\ fn.likely <=>
               /\ ByteLen(fn.s) >= minSecretLen
               /\ ByteLen(fn.s) <= maxSecretLen
               /\ ToLower(fn.s) \notin commonWords
               /\ ShannonEntropy(fn.s) >= fn.threshold
               /\ characterTypes(fn.s) >= minCharacterTypes
        /\ ByteLen(fn.s) = 6 => ~fn.likely
        /\ fn.s = password => ~fn.likely

\* The positions, in the order scanChunk appended them, of the matches of
\* task ci on the given line that have the line's highest confidence.
TopOfLine(ci, line) ==
    LET results == task[ci[1]][ci[2]].results
    IN  {k \in DOMAIN results :
            /\ results[k].LineNumber = line
            /\ \A j \in DOMAIN results :
                  results[j].LineNumber = line =>
                      results[j].Confidence <= results[k].Confidence}

(***************************************************************************)
(* C23: when several matches on one chunk-relative line have equal         *)
(* confidence, the deduplication keeps the last of them in the order of    *)
(* the grouping.                                                           *)
(***************************************************************************)
C23_LastTiedKept ==
    \A ci \in Extracted :
        \A f \in Kept(ci) :
            \E k \in TopOfLine(ci, f.LineNumber) :
                /\ \A j \in TopOfLine(ci, f.LineNumber) : j <= k
                /\ f = task[ci[1]][ci[2]].results[k]

(***************************************************************************)
(* C23 amended: of the matches on one chunk-relative line that share the   *)
(* line's highest confidence, the deduplication keeps the first in the     *)
(* order of the grouping.                                                  *)
(***************************************************************************)
C23_FirstTiedKept ==
    \A ci \in Extracted :
        \A f \in Kept(ci) :
            \E k \in TopOfLine(ci, f.LineNumber) :
                /\ \A j \in TopOfLine(ci, f.LineNumber) : k <= j
                /\ f = task[ci[1]][ci[2]].results[k]

\* A line whose highest confidence is shared by several matches, of which
\* the one appended first was kept.
C23_Witness ==
    \E ci \in Extracted :
        \E f \in Kept(ci) :
            \E j, k \in TopOfLine(ci, f.LineNumber) :
                /\ j < k
                /\ f = task[ci[1]][ci[2]].results[j]
                /\ f # task[ci[1]][ci[2]].results[k]

(***************************************************************************)
(* C24: scanChunk looks at the context before each pattern's match pass.   *)
(* A pass that is about to start under a cancelled context does not run:   *)
(* the extraction returns the cancellation error and no findings, whatever *)
(* the earlier passes appended; under a live context the pass runs.        *)
(***************************************************************************)
C24_CancelledPassFails ==
    [][\A c \in Calls, i \in TaskIds :
          /\ task[c][i].pc = "pass"
          /\ task[c][i].rem # {}
          /\ task'[c][i] # task[c][i]
          => IF ctxDone[c]
             THEN /\ task'[c][i].pc = "scanned"
                  /\ task'[c][i].err = ErrCancelled
                  /\ task'[c][i].final = EmptyBag
                  /\ task'[c][i].results = <<>>
             ELSE /\ task'[c][i].err = NoErr
                  /\ \E name \in task[c][i].rem :
                        /\ task'[c][i].rem = task[c][i].rem \ {name}
                        /\ task'[c][i].results =
                               task[c][i].results
                                   \o PassResults(name, patterns[name],
                                                  task[c][i].text,
                                                  task[c][i].offset)]_vars

\* The context is cancelled while a pass is about to start and an earlier
\* pass has appended matches.
C24_Witness ==
    \E c \in Calls, i \in TaskIds :
        /\ task[c][i].pc = "pass"
        /\ task[c][i].rem # {}
        /\ task[c][i].results # <<>>
        /\ ctxDone[c]

(***************************************************************************)
(* C25: a Scan that missed the cache and whose context is not cancelled    *)
(* returns, with a nil error, exactly the merge of one extraction per      *)
(* chunk at the chunk's offset (so every finding lies in the text where    *)
(* its indexes say).  A text below the threshold is extracted once, at     *)
(* offset 0, by the caller, and no task or closer is started; a text at or *)
(* above it has one task per chunk of the splitter, each collected once.   *)
(***************************************************************************)
C25_MergeOfChunks ==
    \A c \in Calls :
        plan.setup /\ HasReturned(c) /\ ~ctxDone[c] /\ ~RanNothing(c) =>
            /\ ret[c].err = NoErr
            /\ ret[c].results \in CompleteResults(patterns, callText[c])
            /\ \A f \in Findings(c) :
                  Slice(callText[c], f.StartIndex, f.EndIndex) = f.Value
            /\ IF Len(callText[c]) < smallTextThreshold
               THEN /\ closerPc[c] = "none"
                    /\ \A i \in TaskIds \ {0} : task[c][i].pc = "none"
                    /\ collected[c] = {0}
               ELSE /\ task[c][0].pc = "none"
                    /\ \A i \in TaskIds \ {0} :
                          IF i \in ChunkTasks(callText[c])
                          THEN task[c][i].pc = "done"
                          ELSE task[c][i].pc = "none"
                    /\ collected[c] = ChunkTasks(callText[c])

\* An uncancelled Scan of three chunks returned findings of the first and
\* of a later chunk.
C25_Witness ==
    \E c \in Calls :
        /\ HasReturned(c) /\ ~ctxDone[c] /\ TookParallelPath(c)
        /\ Cardinality(ChunkTasks(callText[c])) > 2
        /\ \E f, g \in Findings(c) :
              /\ f.EndIndex <= chunkSize
              /\ g.StartIndex >= chunkSize
              /\ g.Value # <<>>

\* The chunks a finding with the given start can have been extracted from:
\* the whole text on the direct path, the splitter's chunks that hold the
\* position (an empty match at a boundary fits two) on the parallel path.
ChunksAt(text, start) ==
    IF Len(text) < smallTextThreshold
    THEN {[text |-> text, offset |-> 0]}
    ELSE {ch \in Range(splitIntoChunks(text)) :
             ch.offset <= start /\ start <= ch.offset + Len(ch.text)}

(***************************************************************************)
(* C26: a finding's LineNumber is 1 plus the number of newlines between    *)
(* the start of the chunk it was extracted from and the match start.  On   *)
(* the direct path that is the 1-based line of the text; on the parallel   *)
(* path it is relative to the chunk, between 1 and 1 plus the number of    *)
(* newlines of that chunk.                                                 *)
(***************************************************************************)
C26_ChunkRelativeLine ==
    \A c \in Calls : \A f \in Findings(c) :
        /\ \E ch \in ChunksAt(callText[c], f.StartIndex) :
              /\ f.LineNumber =
                     1 + Count(Slice(callText[c], ch.offset, f.StartIndex), NL)
              /\ f.LineNumber >= 1
              /\ f.LineNumber <= 1 + Count(ch.text, NL)
        /\ Len(callText[c]) < smallTextThreshold =>
              f.LineNumber =
                  1 + Count(Slice(callText[c], 0, f.StartIndex), NL)

\* A finding of a later chunk whose LineNumber is not its line in the text.
C26_Witness ==
    \E c \in Calls : \E f \in Findings(c) :
        /\ TookParallelPath(c)
        /\ f.StartIndex > chunkSize
        /\ f.LineNumber = 1
        /\ Count(Slice(callText[c], 0, f.StartIndex), NL) > 0

(***************************************************************************)
(* C27: a finding's confidence is 0.8 when its value has at least 8 bytes  *)
(* and 0.4 when it has fewer (confidences are carried in tenths), whatever *)
(* the pattern, the text and the path.                                     *)
(***************************************************************************)
C27_ConfidenceByLength ==
    fn.op = "paths" =>
        \A f \in fn.direct \cup fn.forced :
            /\ f.Confidence = IF Len(f.Value) >= 8 THEN 8 ELSE 4
            /\ f.Confidence >= 0
            /\ f.Confidence <= 10

\* One text gave a match of 8 bytes and a shorter one.
C27_Witness ==
    /\ fn.op = "paths"
    /\ \E f, g \in fn.direct :
          /\ Len(f.Value) = 8 /\ f.Confidence = 8
          /\ Len(g.Value) < 8 /\ g.Confidence = 4

RECURSIVE LinesFrom(_, _, _)
\* The lines the producer reads from position pos on, each with the offset
\* the producer has when it extracts it.
LinesFrom(text, pos, offset) ==
    IF ~ScanLine(text, pos).ok THEN <<>>
    ELSE <<[text |-> ScanLine(text, pos).line, offset |-> offset]>>
             \o LinesFrom(text, ScanLine(text, pos).next,
                          NextOffset(offset, Len(ScanLine(text, pos).line)))

\* The findings the producer of c extracted from line n.
ExtractedFrom(c, n) ==
    SetToBag({stream[c].extracted[k].result :
                 k \in {j \in 1..Len(stream[c].extracted) :
                           stream[c].extracted[j].line = n}})

(***************************************************************************)
(* C28: StreamScan does not use the result cache.  No step of a StreamScan *)
(* (its call, its producer, its consumer) changes the cache, and a         *)
(* StreamScan that ends with a live context has extracted every line of    *)
(* its text, whether or not the cache holds an entry for that text.        *)
(***************************************************************************)
C28_StreamIgnoresCache ==
    /\ [][(\E c \in plan.streams :
              \/ stream'[c] # stream[c]
              \/ streamChan'[c] # streamChan[c]
              \/ received'[c] # received[c]
              \/ task'[c] # task[c]
              \/ callPc'[c] # callPc[c])
          => cache' = cache]_vars
    /\ [](\A c \in plan.streams :
            stream[c].pc = "done" /\ ~ctxDone[c] =>
                LET lines == LinesFrom(callText[c], 0, 0)
                IN  /\ stream[c].lineNo = Len(lines)
                    /\ \A n \in 1..Len(lines) :
                          ExtractedFrom(c, n) \in
                              Extractions(patterns, lines[n].text,
                                          lines[n].offset))

\* A finished StreamScan of a text for which Scan had stored a result
\* before the stream was called: both lines were extracted again.
C28_Witness ==
    \E c \in plan.streams :
        /\ stream[c].pc = "done"
        /\ ~ctxDone[c]
        /\ CacheHas(callText[c])
        /\ \A d \in Calls \ plan.streams : HasReturned(d)
        /\ stream[c].lineNo = 2
        /\ \E j, k \in 1..Len(received[c]) :
              received[c][j].line = 1 /\ received[c][k].line = 2

(***************************************************************************)
(* C29: a parallel-path Scan always returns.  No task waits to send its    *)
(* results (resultsChan has a free slot whenever a task is about to send), *)
(* and under fair scheduling a Scan in its collection loop eventually      *)
(* returns, also after both channels are closed.                           *)
(***************************************************************************)
C29_ScanReturns ==
    /\ [](\A c \in Calls : \A i \in TaskIds \ {0} :
            task[c][i].pc = "scanned" =>
                Len(resultsChan[c].buf) < resultsCap(callText[c]))
    /\ \A c \in Calls : [](callPc[c] = "collect" => <>HasReturned(c))

\* Scan returned its result after both channels were closed, with three
\* chunks on one worker.
C29_Witness ==
    \E c \in Calls :
        /\ TookParallelPath(c)
        /\ ret[c].err = NoErr
        /\ resultsChan[c].closed /\ errChan[c].closed
        /\ workers = 1
        /\ Cardinality(ChunkTasks(callText[c])) > 2

(***************************************************************************)
(* C30: in the parallel path resultsChan and errChan are each closed       *)
(* exactly once and only after every chunk goroutine has finished: a       *)
(* closed channel has no goroutine left that could send on it and gets no  *)
(* further element, each close is the closer's single step for it, and     *)
(* under fair scheduling both closes happen, whether Scan has returned or  *)
(* not.                                                                    *)
(***************************************************************************)
C30_ClosedOnceAfterTasks ==
    /\ [](\A c \in Calls :
            resultsChan[c].closed \/ errChan[c].closed =>
                \A i \in ChunkTasks(callText[c]) : task[c][i].pc = "done")
    /\ [][\A c \in Calls :
            /\ resultsChan[c].closed =>
                  /\ resultsChan'[c].closed
                  /\ Len(resultsChan'[c].buf) <= Len(resultsChan[c].buf)
            /\ errChan[c].closed =>
                  /\ errChan'[c].closed
                  /\ Len(errChan'[c].buf) <= Len(errChan[c].buf)
            /\ resultsChan'[c].closed /\ ~resultsChan[c].closed =>
                  closerPc[c] = "wait" /\ closerPc'[c] = "closeErr"
            /\ errChan'[c].closed /\ ~errChan[c].closed =>
                  closerPc[c] = "closeErr" /\ closerPc'[c] = "done"
            /\ closerPc[c] = "closeErr" => closerPc'[c] \in {"closeErr", "done"}
            /\ closerPc[c] = "done" => closerPc'[c] = "done"]_vars
    /\ \A c \in Calls :
          [](closerPc[c] = "wait" =>
                <>(resultsChan[c].closed /\ errChan[c].closed))

\* Both channels were closed after a cancelled Scan of three chunks had
\* returned its error and a goroutine had left another one in errChan.
C30_Witness ==
    \E c \in Calls :
        /\ TookParallelPath(c)
        /\ HasReturned(c) /\ ret[c].err = ErrCancelled
        /\ resultsChan[c].closed /\ errChan[c].closed
        /\ errChan[c].buf # <<>>
        /\ Cardinality(ChunkTasks(callText[c])) > 2

(***************************************************************************)
(* C31: the cache is keyed by the text alone and AddPattern does not       *)
(* invalidate it.  No step removes an entry and no step of an AddPattern   *)
(* changes the cache, and after a successful Scan(t) a later Scan(t)       *)
(* called with a live context returns the same findings and runs no        *)
(* extraction, whatever was added to the registry in between.              *)
(***************************************************************************)
C31_StaleCacheServed ==
    /\ [](\A c, d \in Calls :
            /\ c < d
            /\ HasReturned(c) /\ HasReturned(d)
            /\ callText[c] = callText[d]
            /\ ret[c].err = NoErr
            /\ ~ctxDoneAtCall[d]
            => /\ ret[d] = ret[c]
               /\ RanNothing(d))
    /\ [][/\ \A t \in DOMAIN cache : t \in DOMAIN cache'
          /\ (\E a \in Adders : addPc'[a] # addPc[a]) => cache' = cache]_vars

\* The second Scan returned the findings of the first although they are not
\* an extraction of the text under the patterns registered by now.
C31_Witness ==
    \E c, d \in Calls :
        /\ c < d
        /\ HasReturned(c) /\ HasReturned(d)
        /\ callText[c] = callText[d]
        /\ ret[c].err = NoErr /\ ret[d] = ret[c]
        /\ ~ctxDoneAtCall[d]
        /\ RanNothing(d)
        /\ \A a \in Adders : addPc[a] = "done" /\ addErr[a] = NoErr
        /\ ret[d].results \notin CompleteResults(patterns, callText[d])

(***************************************************************************)
(* C32: every finding Scan returns on text t, on either path, has          *)
(* Value = t[StartIndex:EndIndex] and as Type the name of a registered     *)
(* pattern; the same holds of the results an extraction has appended so    *)
(* far, measured in its chunk, while patterns are added concurrently.      *)
(***************************************************************************)
C32_ValueAndType ==
    /\ \A c \in Calls :
          HasReturned(c) =>
              \A r \in Findings(c) :
                  /\ r.Value = Slice(callText[c], r.StartIndex, r.EndIndex)
                  /\ r.Type \in Registered(patterns)
    /\ \A c \in Calls : \A i \in TaskIds :
          \A k \in DOMAIN task[c][i].results :
              LET r == task[c][i].results[k]
                  t == task[c][i]
              IN  /\ r.Value = Slice(t.text, r.StartIndex - t.offset,
                                     r.EndIndex - t.offset)
                  /\ r.Type \in Registered(patterns)

\* A parallel Scan returned a finding of its second chunk.
C32_Witness ==
    \E c \in Calls :
        /\ HasReturned(c) /\ ret[c].err = NoErr
        /\ TookParallelPath(c)
        /\ \E r \in Findings(c) :
              /\ r.StartIndex >= chunkSize
              /\ r.Value # <<>>

(***************************************************************************)
(* C33: StreamScan extracts each line as a chunk of its own, so every      *)
(* finding it emits has LineNumber 1, whatever line of the input it comes  *)
(* from, and no input line has more than one finding: among those the      *)
(* producer extracted, those it is about to send, and those it emitted.    *)
(***************************************************************************)
C33_LineNumberOne ==
    \A c \in Calls :
        /\ \A k \in 1..Len(stream[c].extracted) :
              stream[c].extracted[k].result.LineNumber = 1
        /\ \A j, k \in 1..Len(stream[c].extracted) :
              j # k => stream[c].extracted[j].line # stream[c].extracted[k].line
        /\ Len(stream[c].pending) <= 1
        /\ \A k \in 1..Len(Emitted(c)) : Emitted(c)[k].result.LineNumber = 1
        /\ \A j, k \in 1..Len(Emitted(c)) :
              j # k => Emitted(c)[j].line # Emitted(c)[k].line

\* The consumer holds the one finding of a later line of the input in which
\* the pattern matches more than once.
C33_Witness ==
    \E c \in Calls :
        \E k \in 1..Len(received[c]) :
            LET e == received[c][k]
                line == LinesFrom(callText[c], 0, 0)[e.line].text
            IN  /\ e.line > 1
                /\ e.result.LineNumber = 1
                /\ Len(FindAllStringIndex(patterns[e.result.Type], line)) > 1

(***************************************************************************)
(* C34: one chunk extraction sees a single pattern set.  While a scanChunk *)
(* is between its RLock and its return no step changes the registry, and   *)
(* the findings it returns are an extraction of its chunk under the        *)
(* registry of that time.                                                  *)
(***************************************************************************)
C34_OnePatternSetPerChunk ==
    [][/\ Reading # {} => patterns' = patterns
       /\ \A c \in Calls : \A i \in TaskIds :
             /\ task[c][i].pc = "pass"
             /\ task'[c][i].pc = "scanned"
             /\ task'[c][i].err = NoErr
             => task'[c][i].final \in
                    Extractions(patterns, task[c][i].text, task[c][i].offset)
      ]_vars

\* The registries AddPattern can build from the pattern sources.
Registries ==
    [PatternNames ->
        {NoMatcher} \cup ({Compile(src) : src \in PatternSources}
                              \ {CompileError})]

\* A parallel Scan with a live context returned findings that are a complete
\* result of its text under no single registry: its chunks were extracted
\* under different pattern sets.
C34_Witness ==
    \E c \in Calls :
        /\ HasReturned(c) /\ ret[c].err = NoErr
        /\ TookParallelPath(c)
        /\ ~ctxDone[c]
        /\ \A pats \in Registries :
              ret[c].results \notin CompleteResults(pats, callText[c])
====
